---- MODULE Spec2Model ----
(***************************************************************************)
(* Model of the sudoku generator (package generator, ClassicGenerator):    *)
(* the concurrent Generate, the backtracking solver with MRV, the region   *)
(* synthesis (box and jigsaw) and the carving step removeNumbers; of the   *)
(* generators of src/sudoku_gen.go and src/main.go; and of the command-    *)
(* line program with its uploads through db.UploadSudoku.                  *)
(*                                                                         *)
(* Cells are addressed as in the source: row, col in 0..size-1 and the     *)
(* linear index row*size+col.  A Go slice of regions is a sequence, so     *)
(* region i of the source is SubGrids[i+1]; a nil slice is <<>>.           *)
(***************************************************************************)
EXTENDS Integers, Sequences, FiniteSets, TLC

VARIABLES
    g,              \* the ClassicGenerator: difficulty, size, sudokuType, threads, maxRetries
    deadlinePassed, \* time.Since(startTime) > maxTime
    timerFired,     \* the channel of time.After(maxTime) holds a value
    wpc,            \* position of every worker goroutine
    attempt,        \* loop variable attempt of every worker
    grid,           \* the *types.Grid of every worker's current attempt
    stack,          \* the frames of the recursive solve of every worker
    jig,            \* locals of generateJigsawRegionsSerial of every worker
    carve,          \* locals of removeNumbers of every worker
    stopClosed,     \* stopChan is closed
    resultClosed,   \* resultChan is closed
    errorChan,      \* buffer of errorChan (capacity 1)
    wg,             \* counter of the sync.WaitGroup
    closerpc,       \* position of the goroutine that closes resultChan
    mainpc,         \* position of the caller of Generate
    ret,            \* what Generate returned
    panicked,       \* a goroutine panicked (close of a closed channel, index -1, panic(err))
    attemptChan,    \* buffer of attemptChan of generateJigsawRegionsConcurrent (src/main.go)
    ctxDone,        \* the context of generateJigsawRegionsConcurrent is done
    doneClosed,     \* doneChan of generateJigsawRegionsParallel is closed
    errorClosed,    \* errorChan of generateJigsawRegionsParallel is closed
    puzzleChan,     \* buffer of puzzleChan of ConcurrentPuzzleGenerator (src/main.go)
    puzzles,        \* the slice puzzles of ConcurrentPuzzleGenerator
    scan,           \* the serial generator's first scan for an empty cell (src/sudoku_gen.go)
    store,          \* the ids of the records of the collection "sudokus"
    up,             \* the call of db.UploadSudoku: its place, its id, what it returned
    cmd,            \* the command-line program: its place, its loop variables
    hist            \* history of the run, for stating the properties

vars == <<g, deadlinePassed, timerFired, wpc, attempt, grid, stack, jig, carve,
          stopClosed, resultClosed, errorChan, wg, closerpc, mainpc, ret, panicked,
          attemptChan, ctxDone, doneClosed, errorClosed, puzzleChan, puzzles, scan,
          store, up, cmd, hist>>

(* the variables of region synthesis in src/main.go, which Generate leaves alone *)
regVars == <<attemptChan, ctxDone>>

(* the variables of generateJigsawRegionsParallel alone *)
parVars == <<doneClosed, errorClosed>>

(* the variables of ConcurrentPuzzleGenerator, of the serial generator's scan and of
   the command-line program with its uploads *)
extVars == <<puzzleChan, puzzles, scan, store, up, cmd>>

(* the value of sudokuData["id"]: ok, whether it is a string, and s, its characters *)
IdString(s) == [ok |-> TRUE, s |-> s]

NoUpload ==
    [pc |-> "idle", id |-> IdString(<<>>), payload |-> 0, exists |-> "unchecked",
     ret |-> "none"]

NoCmd ==
    [prog |-> "none", pc |-> "idle", i |-> 0, mainRetries |-> 0, successfulPuzzles |-> 0,
     numPuzzles |-> 0]

(* none of them is in use *)
ExtIdle ==
    /\ puzzleChan = <<>>
    /\ puzzles = <<>>
    /\ scan = 0
    /\ store = {}
    /\ up = NoUpload
    /\ cmd = NoCmd

orchVars == <<stopClosed, resultClosed, errorChan, wg, closerpc, mainpc, ret>>

-----------------------------------------------------------------------------
(* Plain helpers *)

Normal == "normal"

Jigsaw == "jigsaw"

Rng(n) == 0 .. (n - 1)

Nil == <<>>

SeqToSet(s) == {s[k] : k \in 1 .. Len(s)}

MinOf(S) == CHOOSE x \in S : \A y \in S : x <= y

MaxOf(S) == 0 - MinOf({0 - x : x \in S})

-----------------------------------------------------------------------------
(* types.NewGrid: Puzzle and Solution zero-filled, SubGrids nil *)

ZeroCells(size) == [r \in Rng(size) |-> [c \in Rng(size) |-> 0]]

(* aliased[r]: the slices Solution[r] and Puzzle[r] share their backing array, so a
   write through the one is seen through the other; NewGrid makes them apart *)
NewGrid(size) ==
    [Puzzle |-> ZeroCells(size), Solution |-> ZeroCells(size), SubGrids |-> Nil,
     aliased |-> [r \in Rng(size) |-> FALSE]]

(* a write of a cell that also drops the last region of the region set *)
SetCell_DropsRegion(gr, row, col, v) ==
    [gr EXCEPT !.Puzzle[row][col] = v,
               !.SubGrids = SubSeq(@, 1, Len(@) - 1)]

(* grid.Puzzle[row][col] = v *)
SetCell(gr, row, col, v) ==
    [gr EXCEPT !.Puzzle[row][col] = v,
               !.Solution[row][col] = IF gr.aliased[row] THEN v ELSE @]

-----------------------------------------------------------------------------
(* findRegionIndex: the first region that holds cellIndex, -1 when none does *)

(* the lookup returning the position of the region counted from 1 *)
findRegionIndex_FromOne(subGrids, cellIndex) ==
    LET hits == {i \in 1 .. Len(subGrids) : cellIndex \in SeqToSet(subGrids[i])}
    IN  IF hits = {} THEN -1 ELSE MinOf(hits)

findRegionIndex(subGrids, cellIndex) ==
    LET hits == {i \in 1 .. Len(subGrids) : cellIndex \in SeqToSet(subGrids[i])}
    IN  IF hits = {} THEN -1 ELSE MinOf(hits) - 1

(* the check of the column is left out *)
isValidRowCol_RowOnly(gr, num, row, col, size) ==
    \A x \in Rng(size) : gr.Puzzle[row][x] # num

(* isValid indexes grid.SubGrids[regionIndex]: with regionIndex = -1 it panics,
   unless the row or the column check has returned false before *)
isValidRowCol(gr, num, row, col, size) ==
    /\ \A x \in Rng(size) : gr.Puzzle[row][x] # num
    /\ \A x \in Rng(size) : gr.Puzzle[x][col] # num

isValidPanics(gr, num, row, col, size) ==
    /\ isValidRowCol(gr, num, row, col, size)
    /\ findRegionIndex(gr.SubGrids, row * size + col) = -1

(* isValid without its check of the region *)
isValid_NoRegion(gr, num, row, col, size) == isValidRowCol(gr, num, row, col, size)

isValid(gr, num, row, col, size) ==
    /\ isValidRowCol(gr, num, row, col, size)
    /\ LET regionIndex == findRegionIndex(gr.SubGrids, row * size + col)
       IN  \/ regionIndex = -1
           \/ \A k \in 1 .. Len(gr.SubGrids[regionIndex + 1]) :
                 LET idx == gr.SubGrids[regionIndex + 1][k]
                 IN  gr.Puzzle[idx \div size][idx % size] # num

(* the count of legal values of one cell, as counted by findEmptyPositionWithMRV *)
CountValid(gr, i, j, size) == Cardinality({num \in 1 .. size : isValid(gr, num, i, j, size)})

(* the scan of findEmptyPositionWithMRV over the cells k, k+1, ... in row-major
   order, carrying minPossibilities and bestPos *)
RECURSIVE MRVScan(_, _, _, _, _)
(* the comparison is count <= minPossibilities: among equal counts the last cell wins *)
RECURSIVE MRVScan_LastWins(_, _, _, _, _)
MRVScan_LastWins(gr, size, k, minPossibilities, bestPos) ==
    IF k >= size * size THEN bestPos
    ELSE LET i == k \div size
             j == k % size
         IN  IF gr.Puzzle[i][j] = 0 /\ CountValid(gr, i, j, size) <= minPossibilities
             THEN MRVScan_LastWins(gr, size, k + 1, CountValid(gr, i, j, size), <<i, j>>)
             ELSE MRVScan_LastWins(gr, size, k + 1, minPossibilities, bestPos)

MRVScan(gr, size, k, minPossibilities, bestPos) ==
    IF k >= size * size THEN bestPos
    ELSE LET i == k \div size
             j == k % size
         IN  IF gr.Puzzle[i][j] = 0 /\ CountValid(gr, i, j, size) < minPossibilities
             THEN MRVScan(gr, size, k + 1, CountValid(gr, i, j, size), <<i, j>>)
             ELSE MRVScan(gr, size, k + 1, minPossibilities, bestPos)

findEmptyPositionWithMRV(gr, size) == MRVScan(gr, size, 0, size + 1, Nil)

(* pos == nil is decided after the whole scan, which calls isValid for every value
   of every empty cell: a cell outside every region makes the scan panic *)
ScanPanics(gr, size) ==
    \E i \in Rng(size), j \in Rng(size), num \in 1 .. size :
        gr.Puzzle[i][j] = 0 /\ isValidPanics(gr, num, i, j, size)

-----------------------------------------------------------------------------
(* Box layout *)

(* int(math.Sqrt(float64(size))) *)
ISqrt(n) == CHOOSE k \in 0 .. n : k * k <= n /\ (k + 1) * (k + 1) > n

(* the cells appended to one region by the two inner loops, in append order *)
BoxRegion(size, boxRow, boxCol, boxWidth, boxHeight) ==
    [k \in 1 .. boxWidth * boxHeight |->
        LET i == (k - 1) \div boxWidth
            j == (k - 1) % boxWidth
        IN  (boxRow * boxHeight + i) * size + (boxCol * boxWidth + j)]

(* the slot of a box computed with the number of box rows: boxRow*(size/boxHeight)+boxCol *)
generateRectangularSubgrids_RowCount(size, boxWidth, boxHeight) ==
    LET nRows == size \div boxHeight
        nCols == size \div boxWidth
        writers(slot) == {bx \in Rng(nRows) \X Rng(nCols) : bx[1] * nRows + bx[2] = slot}
    IN  [s \in 1 .. size |->
            IF writers(s - 1) = {} THEN Nil
            ELSE LET bx == CHOOSE b \in writers(s - 1) : TRUE
                 IN  BoxRegion(size, bx[1], bx[2], boxWidth, boxHeight)]

(* regions := make([][]int, size), then regions[boxRow*(size/boxWidth)+boxCol] = region
   for boxRow < size/boxHeight and boxCol < size/boxWidth; a slot no iteration writes
   stays nil *)
generateRectangularSubgrids(size, boxWidth, boxHeight) ==
    LET nRows == size \div boxHeight
        nCols == size \div boxWidth
        writers(slot) == {bx \in Rng(nRows) \X Rng(nCols) : bx[1] * nCols + bx[2] = slot}
    IN  [s \in 1 .. size |->
            IF writers(s - 1) = {} THEN Nil
            ELSE LET bx == CHOOSE b \in writers(s - 1) : TRUE
                 IN  BoxRegion(size, bx[1], bx[2], boxWidth, boxHeight)]

DefaultBoxWidth == 3

DefaultBoxHeight == 4

generateNormalSubgrids(size) ==
    LET boxSize == ISqrt(size)
    IN  IF boxSize * boxSize # size
        THEN generateRectangularSubgrids(size, DefaultBoxWidth, DefaultBoxHeight)
        ELSE LET writers(slot) ==
                     {bx \in Rng(boxSize) \X Rng(boxSize) : bx[1] * boxSize + bx[2] = slot}
             IN  [s \in 1 .. size |->
                     IF writers(s - 1) = {} THEN Nil
                     ELSE LET bx == CHOOSE b \in writers(s - 1) : TRUE
                          IN  BoxRegion(size, bx[1], bx[2], boxSize, boxSize)]

-----------------------------------------------------------------------------
(* Jigsaw layout *)

(* neighbours taken by index arithmetic alone, without the column bounds *)
Neighbours_NoColumnCheck(size, idx) ==
    {n \in {idx - size, idx + size, idx - 1, idx + 1} : n \in Rng(size * size)}

(* buildAdjacencyList: the in-grid neighbours of a cell in the order up, down, left, right *)
Neighbours(size, idx) ==
    LET r == idx \div size
        c == idx % size
        dirs == << <<-1, 0>>, <<1, 0>>, <<0, -1>>, <<0, 1>> >>
        inGrid(d) == /\ r + d[1] >= 0 /\ r + d[1] < size
                     /\ c + d[2] >= 0 /\ c + d[2] < size
    IN  {(r + dirs[k][1]) * size + (c + dirs[k][2]) : k \in {k \in 1 .. 4 : inGrid(dirs[k])}}

buildAdjacencyList(size) == [idx \in Rng(size * size) |-> Neighbours(size, idx)]

(* the candidates of one growth step: the unused neighbours of the region's cells
   (the source collects them with repetitions, which only weights the draw) *)
Candidates(size, region, used) ==
    {n \in UNION {buildAdjacencyList(size)[cell] : cell \in SeqToSet(region)} : n \notin used}

(* the budget of generateJigsawRegionsSerial (maxAttempts, 1000000 in the source) *)
MaxAttempts == 2

-----------------------------------------------------------------------------
(* The worker goroutines of Generate *)

Workers == Rng(g.threads)

AllCells == Rng(g.size * g.size)

(* attemptsPerThread := g.maxRetries / g.threads, at least 1 *)
AttemptsPerThread ==
    IF g.maxRetries \div g.threads < 1 THEN 1 ELSE g.maxRetries \div g.threads

NoJig == [attempts |-> 0, regionIdx |-> 0, regions |-> Nil, used |-> {}, region |-> Nil]

(* the locals of one attempt of generateJigsawRegionsSerial at its start *)
FreshJig(attempts) ==
    [attempts |-> attempts, regionIdx |-> 0, regions |-> [s \in 1 .. g.size |-> Nil],
     used |-> {}, region |-> Nil]

NoCarve == [i |-> 0, drawn |-> {}]

(* a seed alone is never stored: a region is stored only after a growth step *)
StoreRegion_NeedsGrowth(j) ==
    IF Len(j.region) < g.size \/ Len(j.region) < 2 THEN j
    ELSE [j EXCEPT !.regions[j.regionIdx + 1] = j.region,
                   !.regionIdx = j.regionIdx + 1,
                   !.region = Nil]

(* a region that reached size cells is stored and the region loop moves on *)
StoreRegion(j) ==
    IF Len(j.region) < g.size THEN j
    ELSE [j EXCEPT !.regions[j.regionIdx + 1] = j.region,
                   !.regionIdx = j.regionIdx + 1,
                   !.region = Nil]

(* worker w is at the given place of its code, and the process has not crashed *)
At(w, place) == ~panicked /\ wpc[w] = place

(* a worker returns: what ended it is recorded, and whether the workers have by now
   all run out of attempts while the timer had not fired *)
Exited(h, w, why) ==
    LET ex == [h.exit EXCEPT ![w] = why]
    IN  [h EXCEPT !.exit = ex,
                  !.exhaustedEarly = /\ \A v \in DOMAIN ex : ex[v] = "quota"
                                     /\ ~timerFired]

(* the worker leaves its loop: quota used up, or stopChan seen closed; defer wg.Done() *)
WorkerExit(w) ==
    /\ At(w, "loop")
    /\ attempt[w] >= AttemptsPerThread \/ stopClosed
    /\ wpc' = [wpc EXCEPT ![w] = "done"]
    /\ wg' = wg - 1
    /\ hist' = Exited(hist, w, IF attempt[w] >= AttemptsPerThread THEN "quota" ELSE "stopped")
    /\ UNCHANGED <<g, deadlinePassed, timerFired, attempt, grid, stack, jig, carve,
                   stopClosed, resultClosed, errorChan, closerpc, mainpc, ret, panicked,
                   regVars, parVars, extVars>>

(* one grid made once for all workers: an attempt resets the grid every worker holds *)
WorkerAttempt_SharedGrid(w) ==
    /\ At(w, "loop")
    /\ attempt[w] < AttemptsPerThread
    /\ ~stopClosed
    /\ grid' = [v \in Workers |->
                   [NewGrid(g.size) EXCEPT !.SubGrids = generateNormalSubgrids(g.size)]]
    /\ jig' = jig
    /\ wpc' = [wpc EXCEPT ![w] = "solve"]
    /\ hist' = [hist EXCEPT !.ownPassed[w] = FALSE]
    /\ UNCHANGED <<g, deadlinePassed, timerFired, attempt, stack, carve, orchVars,
                   panicked, regVars, parVars, extVars>>

(* one more attempt: NewGrid, then the regions of the requested layout *)
WorkerAttempt(w) ==
    /\ At(w, "loop")
    /\ attempt[w] < AttemptsPerThread
    /\ ~stopClosed
    /\ IF g.sudokuType = Jigsaw
       THEN /\ grid' = [grid EXCEPT ![w] = NewGrid(g.size)]
            /\ jig' = [jig EXCEPT ![w] = FreshJig(0)]
            /\ wpc' = [wpc EXCEPT ![w] = "jigsaw"]
       ELSE /\ grid' = [grid EXCEPT ![w] =
                           [NewGrid(g.size) EXCEPT !.SubGrids = generateNormalSubgrids(g.size)]]
            /\ jig' = jig
            /\ wpc' = [wpc EXCEPT ![w] = "solve"]
    /\ hist' = [hist EXCEPT !.ownPassed[w] = FALSE]
    /\ UNCHANGED <<g, deadlinePassed, timerFired, attempt, stack, carve, orchVars,
                   panicked, regVars, parVars, extVars>>

(* generateJigsawRegionsSerial: the seed of the next region, drawn among the unused cells *)
JigSeed(w) ==
    /\ At(w, "jigsaw")
    /\ jig[w].attempts < MaxAttempts
    /\ jig[w].region = Nil
    /\ jig[w].regionIdx < g.size
    /\ LET available == AllCells \ jig[w].used
       IN  IF available = {}
           THEN jig' = [jig EXCEPT ![w] = FreshJig(jig[w].attempts + 1)]
           ELSE \E start \in available :
                    jig' = [jig EXCEPT ![w] =
                               StoreRegion([jig[w] EXCEPT !.region = <<start>>,
                                                          !.used = @ \cup {start}])]
    /\ UNCHANGED <<g, deadlinePassed, timerFired, wpc, attempt, grid, stack, carve,
                   orchVars, panicked, hist, regVars, parVars, extVars>>

(* one growth step: a candidate is drawn and appended *)
JigGrow(w) ==
    /\ At(w, "jigsaw")
    /\ jig[w].region # Nil
    /\ \E next \in Candidates(g.size, jig[w].region, jig[w].used) :
           jig' = [jig EXCEPT ![w] =
                      StoreRegion([jig[w] EXCEPT !.region = Append(@, next),
                                                 !.used = @ \cup {next}])]
    /\ UNCHANGED <<g, deadlinePassed, timerFired, wpc, attempt, grid, stack, carve,
                   orchVars, panicked, hist, regVars, parVars, extVars>>

(* the next attempt starts with the used cells of the attempt that got stuck *)
JigStuck_KeepsUsed(w) ==
    /\ At(w, "jigsaw")
    /\ jig[w].region # Nil
    /\ Candidates(g.size, jig[w].region, jig[w].used) = {}
    /\ jig' = [jig EXCEPT ![w] = [FreshJig(jig[w].attempts + 1) EXCEPT !.used = jig[w].used]]
    /\ UNCHANGED <<g, deadlinePassed, timerFired, wpc, attempt, grid, stack, carve,
                   orchVars, panicked, hist, regVars, parVars, extVars>>

(* no candidate: valid = false, both loops are left and the next attempt starts afresh *)
JigStuck(w) ==
    /\ At(w, "jigsaw")
    /\ jig[w].region # Nil
    /\ Candidates(g.size, jig[w].region, jig[w].used) = {}
    /\ jig' = [jig EXCEPT ![w] = FreshJig(jig[w].attempts + 1)]
    /\ UNCHANGED <<g, deadlinePassed, timerFired, wpc, attempt, grid, stack, carve,
                   orchVars, panicked, hist, regVars, parVars, extVars>>

(* all regions grown: valid && len(used) == size*size returns the regions, and the
   worker goes on to solve *)
JigReturn(w) ==
    /\ At(w, "jigsaw")
    /\ jig[w].attempts < MaxAttempts
    /\ jig[w].region = Nil
    /\ jig[w].regionIdx = g.size
    /\ IF Cardinality(jig[w].used) = g.size * g.size
       THEN /\ grid' = [grid EXCEPT ![w].SubGrids = jig[w].regions]
            /\ jig' = [jig EXCEPT ![w] = NoJig]
            /\ wpc' = [wpc EXCEPT ![w] = "solve"]
       ELSE /\ jig' = [jig EXCEPT ![w] = FreshJig(jig[w].attempts + 1)]
            /\ UNCHANGED <<grid, wpc>>
    /\ UNCHANGED <<g, deadlinePassed, timerFired, attempt, stack, carve, orchVars,
                   panicked, hist, regVars, parVars, extVars>>

(* the error is returned one attempt before the budget is used up *)
JigFail_OneShort(w) ==
    /\ At(w, "jigsaw")
    /\ jig[w].attempts >= MaxAttempts - 1
    /\ jig' = [jig EXCEPT ![w] = NoJig]
    /\ grid' = [grid EXCEPT ![w] = Nil]
    /\ attempt' = [attempt EXCEPT ![w] = @ + 1]
    /\ wpc' = [wpc EXCEPT ![w] = "loop"]
    /\ hist' = [hist EXCEPT !.ownPassed[w] = FALSE]
    /\ UNCHANGED <<g, deadlinePassed, timerFired, stack, carve, orchVars, panicked,
                   regVars, parVars, extVars>>

(* the budget is used up: the error is returned and the worker continues its loop *)
JigFail(w) ==
    /\ At(w, "jigsaw")
    /\ jig[w].attempts >= MaxAttempts
    /\ jig' = [jig EXCEPT ![w] = NoJig]
    /\ grid' = [grid EXCEPT ![w] = Nil]
    /\ attempt' = [attempt EXCEPT ![w] = @ + 1]
    /\ wpc' = [wpc EXCEPT ![w] = "loop"]
    /\ hist' = [hist EXCEPT !.ownPassed[w] = FALSE]
    /\ UNCHANGED <<g, deadlinePassed, timerFired, stack, carve, orchVars, panicked,
                   regVars, parVars, extVars>>

-----------------------------------------------------------------------------
(* solve: one frame per active call, holding pos and the numbers of the shuffled
   slice nums the loop has not reached yet.  getShuffledNumbers is a random
   permutation, revealed one element at a time; an element isValid rejects leaves
   the state as it is, so the loop is advanced to the next element it accepts. *)

Frame(pos, size) == [row |-> pos[1], col |-> pos[2], nums |-> 1 .. size]

Top(st) == st[Len(st)]

Pop(st) == SubSeq(st, 1, Len(st) - 1)

(* the base case is looked at first, the deadline only when an empty cell is left *)
SolveCall_BaseCaseFirst(w) ==
    /\ At(w, "solve")
    /\ IF ScanPanics(grid[w], g.size)
       THEN /\ panicked' = TRUE
            /\ UNCHANGED <<stack, wpc, hist>>
       ELSE IF \A i \in Rng(g.size), j \in Rng(g.size) : grid[w].Puzzle[i][j] # 0
       THEN /\ stack' = [stack EXCEPT ![w] = <<>>]
            /\ wpc' = [wpc EXCEPT ![w] = "solved"]
            /\ hist' = [hist EXCEPT !.entry[w] = <<>>, !.ownPassed[w] = FALSE]
            /\ UNCHANGED panicked
       ELSE IF deadlinePassed
       THEN /\ wpc' = [wpc EXCEPT ![w] = "retfalse"]
            /\ hist' = [hist EXCEPT !.timedOut[w] = TRUE,
                                   !.entry[w] = Append(@, grid[w].Puzzle)]
            /\ UNCHANGED <<stack, panicked>>
       ELSE /\ stack' = [stack EXCEPT ![w] =
                            Append(@, Frame(findEmptyPositionWithMRV(grid[w], g.size), g.size))]
            /\ wpc' = [wpc EXCEPT ![w] = "nums"]
            /\ hist' = [hist EXCEPT !.entry[w] = Append(@, grid[w].Puzzle)]
            /\ UNCHANGED panicked
    /\ UNCHANGED <<g, deadlinePassed, timerFired, attempt, grid, jig, carve, orchVars,
                   regVars, parVars, extVars>>

(* entry of a call: the deadline check, then pos := findEmptyPositionWithMRV *)
SolveCall(w) ==
    /\ At(w, "solve")
    /\ IF deadlinePassed
       THEN /\ wpc' = [wpc EXCEPT ![w] = "retfalse"]
            /\ hist' = [hist EXCEPT !.timedOut[w] = TRUE,
                                   !.entry[w] = Append(@, grid[w].Puzzle)]
            /\ UNCHANGED <<stack, panicked>>
       ELSE IF ScanPanics(grid[w], g.size)
       THEN /\ panicked' = TRUE
            /\ UNCHANGED <<stack, wpc, hist>>
       ELSE LET pos == findEmptyPositionWithMRV(grid[w], g.size)
            IN  IF pos = Nil
                THEN /\ stack' = [stack EXCEPT ![w] = <<>>]
                     /\ wpc' = [wpc EXCEPT ![w] = "solved"]
                     /\ hist' = [hist EXCEPT !.entry[w] = <<>>, !.ownPassed[w] = FALSE]
                     /\ UNCHANGED panicked
                ELSE /\ stack' = [stack EXCEPT ![w] = Append(@, Frame(pos, g.size))]
                     /\ wpc' = [wpc EXCEPT ![w] = "nums"]
                     /\ hist' = [hist EXCEPT !.entry[w] = Append(@, grid[w].Puzzle)]
                     /\ UNCHANGED panicked
    /\ UNCHANGED <<g, deadlinePassed, timerFired, attempt, grid, jig, carve, orchVars,
                   regVars, parVars, extVars>>

(* the loop stops after the first number it placed: the other numbers are never tried *)
SolveTry_OnlyFirst(w) ==
    /\ At(w, "nums")
    /\ LET f == Top(stack[w])
       IN  \E num \in f.nums :
               /\ isValid(grid[w], num, f.row, f.col, g.size)
               /\ grid' = [grid EXCEPT ![w] = SetCell(@, f.row, f.col, num)]
               /\ stack' = [stack EXCEPT ![w][Len(stack[w])].nums = {}]
    /\ wpc' = [wpc EXCEPT ![w] = "solve"]
    /\ UNCHANGED <<g, deadlinePassed, timerFired, attempt, jig, carve, orchVars,
                   panicked, hist, regVars, parVars, extVars>>

(* the loop reaches a number isValid accepts: it is placed and solve is called *)
SolveTry(w) ==
    /\ At(w, "nums")
    /\ LET f == Top(stack[w])
       IN  \E num \in f.nums :
               /\ isValid(grid[w], num, f.row, f.col, g.size)
               /\ grid' = [grid EXCEPT ![w] = SetCell(@, f.row, f.col, num)]
               /\ stack' = [stack EXCEPT ![w][Len(stack[w])].nums = @ \ {num}]
    /\ wpc' = [wpc EXCEPT ![w] = "solve"]
    /\ UNCHANGED <<g, deadlinePassed, timerFired, attempt, jig, carve, orchVars,
                   panicked, hist, regVars, parVars, extVars>>

(* the loop ends without a number left to place: the call returns false *)
SolveExhausted(w) ==
    /\ At(w, "nums")
    /\ LET f == Top(stack[w])
       IN  \A num \in f.nums : ~isValid(grid[w], num, f.row, f.col, g.size)
    /\ stack' = [stack EXCEPT ![w] = Pop(@)]
    /\ wpc' = [wpc EXCEPT ![w] = "retfalse"]
    /\ UNCHANGED <<g, deadlinePassed, timerFired, attempt, grid, jig, carve, orchVars,
                   panicked, hist, regVars, parVars, extVars>>

(* the cell keeps the number after the failed recursive call *)
SolveUndo_NoReset(w) ==
    /\ At(w, "retfalse")
    /\ stack[w] # <<>>
    /\ wpc' = [wpc EXCEPT ![w] = "nums"]
    /\ hist' = [hist EXCEPT !.entry[w] = Pop(@)]
    /\ UNCHANGED <<g, deadlinePassed, timerFired, attempt, grid, stack, jig, carve, orchVars,
                   panicked, regVars, parVars, extVars>>

(* a recursive call returned false: grid.Puzzle[row][col] = 0 and the loop goes on *)
SolveUndo(w) ==
    /\ At(w, "retfalse")
    /\ stack[w] # <<>>
    /\ LET f == Top(stack[w])
       IN  grid' = [grid EXCEPT ![w] = SetCell(@, f.row, f.col, 0)]
    /\ wpc' = [wpc EXCEPT ![w] = "nums"]
    /\ hist' = [hist EXCEPT !.entry[w] = Pop(@)]
    /\ UNCHANGED <<g, deadlinePassed, timerFired, attempt, stack, jig, carve, orchVars,
                   panicked, regVars, parVars, extVars>>

(* the outermost call returned false: the worker's next attempt *)
SolveFailed(w) ==
    /\ At(w, "retfalse")
    /\ stack[w] = <<>>
    /\ grid' = [grid EXCEPT ![w] = Nil]
    /\ attempt' = [attempt EXCEPT ![w] = @ + 1]
    /\ wpc' = [wpc EXCEPT ![w] = "loop"]
    /\ hist' = [hist EXCEPT !.entry[w] = <<>>, !.ownPassed[w] = FALSE]
    /\ UNCHANGED <<g, deadlinePassed, timerFired, stack, jig, carve, orchVars,
                   panicked, regVars, parVars, extVars>>

-----------------------------------------------------------------------------
(* Copy of the solution and removeNumbers *)

(* the solution is left as NewGrid made it *)
CopySolution_Skipped(gr) == gr

(* grid.Solution[i] = grid.Puzzle[i]: the rows of the solution are the rows of the puzzle *)
CopySolution_Aliased(gr) ==
    [gr EXCEPT !.Solution = gr.Puzzle, !.aliased = [r \in DOMAIN gr.Puzzle |-> TRUE]]

(* grid.Solution = make([][]int, size); each row made anew and copied from Puzzle *)
CopySolution(gr) ==
    [gr EXCEPT !.Solution = gr.Puzzle, !.aliased = [r \in DOMAIN gr.Puzzle |-> FALSE]]

(* the count rounded up instead of down *)
CellsToRemove_RoundedUp(difficulty, size) ==
    ((difficulty * 10 + 20) * size * size + 99) \div 100

(* cellsToRemove := (g.difficulty*10 + 20) * g.size * g.size / 100 *)
CellsToRemove(difficulty, size) == ((difficulty * 10 + 20) * size * size) \div 100

(* sets of at most this many cells have every draw of the shuffle enumerated; of a
   larger set only the least and the greatest cell are drawn *)
MaxEnumerated == 9

(* independent draws, which may repeat a cell *)
ShuffleDraws_Repeating(all, drawn) ==
    IF Cardinality(all) <= MaxEnumerated THEN all ELSE {MinOf(all), MaxOf(all)}

(* cells is a random permutation of all cell indices, revealed one element at a time:
   cells[i] is a cell that is not among cells[0..i-1] *)
ShuffleDraws(all, drawn) ==
    LET rest == all \ drawn
    IN  IF Cardinality(rest) <= MaxEnumerated \/ rest = {} THEN rest
        ELSE {MinOf(rest), MaxOf(rest)}

(* solve returned true: the solution is copied and removeNumbers begins *)
SolveDone(w) ==
    /\ At(w, "solved")
    /\ grid' = [grid EXCEPT ![w] = CopySolution(@)]
    /\ carve' = [carve EXCEPT ![w] = NoCarve]
    /\ wpc' = [wpc EXCEPT ![w] = "remove"]
    /\ hist' = [hist EXCEPT !.solved[w] = grid[w].Puzzle]
    /\ UNCHANGED <<g, deadlinePassed, timerFired, attempt, stack, jig, orchVars, panicked,
                   regVars, parVars, extVars>>

(* one iteration of the removal loop: the cell cells[i] is zeroed *)
RemoveStep(w) ==
    /\ At(w, "remove")
    /\ carve[w].i < CellsToRemove(g.difficulty, g.size)
    /\ \E cellIdx \in ShuffleDraws(AllCells, carve[w].drawn) :
           /\ grid' = [grid EXCEPT ![w] = SetCell(@, cellIdx \div g.size, cellIdx % g.size, 0)]
           /\ carve' = [carve EXCEPT ![w] = [i |-> @.i + 1, drawn |-> @.drawn \cup {cellIdx}]]
    /\ UNCHANGED <<g, deadlinePassed, timerFired, wpc, attempt, stack, jig, orchVars,
                   panicked, hist, regVars, parVars, extVars>>

(* removeNumbers returns: the worker reaches the select that publishes the grid *)
RemoveDone(w) ==
    /\ At(w, "remove")
    /\ carve[w].i >= CellsToRemove(g.difficulty, g.size)
    /\ carve' = [carve EXCEPT ![w] = NoCarve]
    /\ wpc' = [wpc EXCEPT ![w] = "publish"]
    /\ hist' = [hist EXCEPT !.lateFinish[w] = timerFired]
    /\ UNCHANGED <<g, deadlinePassed, timerFired, attempt, grid, stack, jig, orchVars,
                   panicked, regVars, parVars, extVars>>

-----------------------------------------------------------------------------
(* The channels of Generate: resultChan is unbuffered, so a send completes only
   together with the caller's receive; errorChan has capacity 1; stopChan is only
   ever closed *)

NoRet == [kind |-> "none", grid |-> Nil, worker |-> -1, attempt |-> -1]

(* case resultChan <- grid, taken together with the caller's case grid, ok := <-resultChan *)
Publish(w) ==
    /\ At(w, "publish")
    /\ mainpc = "select"
    /\ wpc' = [wpc EXCEPT ![w] = "close"]
    /\ mainpc' = "done"
    /\ ret' = [kind |-> "puzzle", grid |-> grid[w], worker |-> w, attempt |-> attempt[w]]
    /\ hist' = [hist EXCEPT !.published = Append(@, <<w, attempt[w]>>),
                            !.timerAtSelect = timerFired,
                            !.deadlineAtSelect = deadlinePassed]
    /\ UNCHANGED <<g, deadlinePassed, timerFired, attempt, grid, stack, jig, carve,
                   stopClosed, resultClosed, errorChan, wg, closerpc, panicked, regVars, parVars, extVars>>

(* close(stopChan) after the send, then return; closing a closed channel panics *)
WorkerCloseStop(w) ==
    /\ At(w, "close")
    /\ IF stopClosed
       THEN /\ panicked' = TRUE
            /\ UNCHANGED <<stopClosed, wpc, wg, hist>>
       ELSE /\ stopClosed' = TRUE
            /\ wpc' = [wpc EXCEPT ![w] = "done"]
            /\ wg' = wg - 1
            /\ hist' = Exited([hist EXCEPT !.closes = @ + 1], w, "published")
            /\ UNCHANGED panicked
    /\ UNCHANGED <<g, deadlinePassed, timerFired, attempt, grid, stack, jig, carve,
                   resultClosed, errorChan, closerpc, mainpc, ret, regVars, parVars, extVars>>

(* a publishing select without its case <-stopChan: the worker can only send *)
WorkerStopped_NoStopCase(w) ==
    /\ At(w, "publish")
    /\ FALSE
    /\ UNCHANGED vars

(* a stopped worker that closes stopChan as the publishing one does *)
WorkerStopped_Closing(w) ==
    /\ At(w, "publish")
    /\ stopClosed
    /\ panicked' = TRUE
    /\ UNCHANGED <<g, deadlinePassed, timerFired, wpc, attempt, grid, stack, jig, carve,
                   orchVars, hist, regVars, parVars, extVars>>

(* case <-stopChan of the publishing select: the worker returns without publishing *)
WorkerStopped(w) ==
    /\ At(w, "publish")
    /\ stopClosed
    /\ wpc' = [wpc EXCEPT ![w] = "done"]
    /\ wg' = wg - 1
    /\ hist' = Exited(hist, w, "stopped")
    /\ UNCHANGED <<g, deadlinePassed, timerFired, attempt, grid, stack, jig, carve,
                   stopClosed, resultClosed, errorChan, closerpc, mainpc, ret, panicked,
                   regVars, parVars, extVars>>

(* a closing goroutine that does not wait for the workers *)
CloserWait_NoWait ==
    /\ ~panicked /\ closerpc = "wait"
    /\ closerpc' = "select"
    /\ UNCHANGED <<g, deadlinePassed, timerFired, wpc, attempt, grid, stack, jig, carve,
                   stopClosed, resultClosed, errorChan, wg, mainpc, ret, panicked, hist,
                   regVars, parVars, extVars>>

(* the closing goroutine: wg.Wait() returns *)
CloserWait ==
    /\ ~panicked /\ closerpc = "wait"
    /\ wg = 0
    /\ closerpc' = "select"
    /\ UNCHANGED <<g, deadlinePassed, timerFired, wpc, attempt, grid, stack, jig, carve,
                   stopClosed, resultClosed, errorChan, wg, mainpc, ret, panicked, hist,
                   regVars, parVars, extVars>>

(* its select: nothing if stopChan is closed, else the failure goes into errorChan *)
CloserSelect ==
    /\ ~panicked /\ closerpc = "select"
    /\ stopClosed \/ Len(errorChan) < 1
    /\ errorChan' = IF stopClosed THEN errorChan ELSE Append(errorChan, g.maxRetries)
    /\ closerpc' = "close"
    /\ UNCHANGED <<g, deadlinePassed, timerFired, wpc, attempt, grid, stack, jig, carve,
                   stopClosed, resultClosed, wg, mainpc, ret, panicked, hist, regVars, parVars, extVars>>

(* close(resultChan) *)
CloserClose ==
    /\ ~panicked /\ closerpc = "close"
    /\ IF resultClosed
       THEN /\ panicked' = TRUE
            /\ UNCHANGED <<resultClosed, closerpc>>
       ELSE /\ resultClosed' = TRUE
            /\ closerpc' = "done"
            /\ UNCHANGED panicked
    /\ UNCHANGED <<g, deadlinePassed, timerFired, wpc, attempt, grid, stack, jig, carve,
                   stopClosed, errorChan, wg, mainpc, ret, hist, regVars, parVars, extVars>>

(* a caller that returns at once when it finds resultChan closed: return nil, nil *)
MainRecvClosed_NoError ==
    /\ ~panicked /\ mainpc = "select"
    /\ resultClosed
    /\ mainpc' = "done"
    /\ ret' = NoRet
    /\ hist' = [hist EXCEPT !.timerAtSelect = timerFired, !.deadlineAtSelect = deadlinePassed]
    /\ UNCHANGED <<g, deadlinePassed, timerFired, wpc, attempt, grid, stack, jig, carve,
                   stopClosed, resultClosed, errorChan, wg, closerpc, panicked, regVars, parVars, extVars>>

(* the caller's receive finds resultChan closed (ok is false) *)
MainRecvClosed ==
    /\ ~panicked /\ mainpc = "select"
    /\ resultClosed
    /\ mainpc' = "recverr"
    /\ hist' = [hist EXCEPT !.timerAtSelect = timerFired, !.deadlineAtSelect = deadlinePassed]
    /\ UNCHANGED <<g, deadlinePassed, timerFired, wpc, attempt, grid, stack, jig, carve,
                   stopClosed, resultClosed, errorChan, wg, closerpc, ret, panicked,
                   regVars, parVars, extVars>>

(* err := <-errorChan; return nil, err *)
MainRecvError ==
    /\ ~panicked /\ mainpc = "recverr"
    /\ errorChan # <<>>
    /\ ret' = [NoRet EXCEPT !.kind = "failed", !.attempt = Head(errorChan)]
    /\ errorChan' = Tail(errorChan)
    /\ mainpc' = "done"
    /\ UNCHANGED <<g, deadlinePassed, timerFired, wpc, attempt, grid, stack, jig, carve,
                   stopClosed, resultClosed, wg, closerpc, panicked, hist, regVars, parVars, extVars>>

(* case <-time.After(maxTime): close(stopChan) *)
MainTimeout ==
    /\ ~panicked /\ mainpc = "select"
    /\ timerFired
    /\ IF stopClosed
       THEN /\ panicked' = TRUE
            /\ UNCHANGED <<stopClosed, mainpc, hist>>
       ELSE /\ stopClosed' = TRUE
            /\ mainpc' = "wait"
            /\ hist' = [hist EXCEPT !.closes = @ + 1, !.timerAtSelect = TRUE,
                                    !.deadlineAtSelect = deadlinePassed]
            /\ UNCHANGED panicked
    /\ UNCHANGED <<g, deadlinePassed, timerFired, wpc, attempt, grid, stack, jig, carve,
                   resultClosed, errorChan, wg, closerpc, ret, regVars, parVars, extVars>>

(* a timeout branch that returns without wg.Wait() *)
MainWait_NoWait ==
    /\ ~panicked /\ mainpc = "wait"
    /\ ret' = [NoRet EXCEPT !.kind = "timeout"]
    /\ mainpc' = "done"
    /\ UNCHANGED <<g, deadlinePassed, timerFired, wpc, attempt, grid, stack, jig, carve,
                   stopClosed, resultClosed, errorChan, wg, closerpc, panicked, hist,
                   regVars, parVars, extVars>>

(* wg.Wait() of the timeout branch, then the timed-out error is returned *)
MainWait ==
    /\ ~panicked /\ mainpc = "wait"
    /\ wg = 0
    /\ ret' = [NoRet EXCEPT !.kind = "timeout"]
    /\ mainpc' = "done"
    /\ UNCHANGED <<g, deadlinePassed, timerFired, wpc, attempt, grid, stack, jig, carve,
                   stopClosed, resultClosed, errorChan, wg, closerpc, panicked, hist,
                   regVars, parVars, extVars>>

(* the clock: time.Since(startTime) exceeds maxTime *)
DeadlinePass ==
    /\ mainpc # "config"
    /\ ~deadlinePassed
    /\ deadlinePassed' = TRUE
    /\ UNCHANGED <<g, timerFired, wpc, attempt, grid, stack, jig, carve, orchVars,
                   panicked, hist, regVars, parVars, extVars>>

(* the attempt worker w is making has itself been running for longer than maxTime.
   The attempt began after startTime was taken, so this comes after DeadlinePass *)
InAttempt == {"jigsaw", "solve", "nums", "retfalse"}

AttemptBudgetPass(w) ==
    /\ At(w, wpc[w])
    /\ wpc[w] \in InAttempt
    /\ deadlinePassed
    /\ ~hist.ownPassed[w]
    /\ hist' = [hist EXCEPT !.ownPassed[w] = TRUE]
    /\ UNCHANGED <<g, deadlinePassed, timerFired, wpc, attempt, grid, stack, jig, carve,
                   orchVars, panicked, regVars, parVars, extVars>>

(* the timer of time.After(maxTime), made when the caller enters its select and so
   after startTime was taken, fires *)
TimerFire ==
    /\ mainpc = "select"
    /\ deadlinePassed
    /\ ~timerFired
    /\ timerFired' = TRUE
    /\ UNCHANGED <<g, deadlinePassed, wpc, attempt, grid, stack, jig, carve, orchVars,
                   panicked, hist, regVars, parVars, extVars>>

-----------------------------------------------------------------------------
(* Generate up to the caller's select: the channels made, every worker and the
   closing goroutine started, wg.Add(1) done once per worker *)

NoHist(threads) ==
    [published |-> <<>>, closes |-> 0, exit |-> [w \in Rng(threads) |-> "none"],
     timerAtSelect |-> FALSE, deadlineAtSelect |-> FALSE, exhaustedEarly |-> FALSE,
     solved |-> [w \in Rng(threads) |-> Nil],
     timedOut |-> [w \in Rng(threads) |-> FALSE],
     entry |-> [w \in Rng(threads) |-> <<>>],
     ownPassed |-> [w \in Rng(threads) |-> FALSE],
     lateFinish |-> [w \in Rng(threads) |-> FALSE],
     calls |-> 0, level |-> 0, err |-> FALSE, before |-> 0]

Generator(size, typ, threads, maxRetries, difficulty) ==
    [size |-> size, sudokuType |-> typ, threads |-> threads, maxRetries |-> maxRetries,
     difficulty |-> difficulty]

(* the state in which the one or several workers of gen are at the given place of
   their first attempt with the given grid, the caller at the given place of Generate *)
Started(gen, caller, late, place, gr) ==
    /\ g = gen
    /\ deadlinePassed = late
    /\ timerFired = FALSE
    /\ wpc = [w \in Rng(gen.threads) |-> place]
    /\ attempt = [w \in Rng(gen.threads) |-> 0]
    /\ grid = [w \in Rng(gen.threads) |-> gr]
    /\ stack = [w \in Rng(gen.threads) |-> <<>>]
    /\ jig = [w \in Rng(gen.threads) |-> NoJig]
    /\ carve = [w \in Rng(gen.threads) |-> NoCarve]
    /\ stopClosed = FALSE
    /\ resultClosed = FALSE
    /\ errorChan = <<>>
    /\ wg = gen.threads
    /\ closerpc = "wait"
    /\ mainpc = caller
    /\ ret = NoRet
    /\ panicked = FALSE
    /\ attemptChan = <<>>
    /\ ctxDone = FALSE
    /\ doneClosed = FALSE
    /\ errorClosed = FALSE
    /\ ExtIdle
    /\ hist = NoHist(gen.threads)

(* a generator as NewClassicGenerator returns it, Generate not yet called: no
   goroutine runs, difficulty is 1 *)
Configuring(gen) ==
    /\ g = gen
    /\ deadlinePassed = FALSE
    /\ timerFired = FALSE
    /\ wpc = [w \in Rng(gen.threads) |-> "idle"]
    /\ attempt = [w \in Rng(gen.threads) |-> 0]
    /\ grid = [w \in Rng(gen.threads) |-> Nil]
    /\ stack = [w \in Rng(gen.threads) |-> <<>>]
    /\ jig = [w \in Rng(gen.threads) |-> NoJig]
    /\ carve = [w \in Rng(gen.threads) |-> NoCarve]
    /\ stopClosed = FALSE
    /\ resultClosed = FALSE
    /\ errorChan = <<>>
    /\ wg = 0
    /\ closerpc = "idle"
    /\ mainpc = "config"
    /\ ret = NoRet
    /\ panicked = FALSE
    /\ attemptChan = <<>>
    /\ ctxDone = FALSE
    /\ doneClosed = FALSE
    /\ errorClosed = FALSE
    /\ ExtIdle
    /\ hist = NoHist(gen.threads)

(* the levels SetDifficulty is called with, and how many calls are explored *)
Levels == 0 .. 6

MaxCalls == 2

(* a SetDifficulty that assigns the level before it checks it *)
SetDifficulty_Unchecked ==
    /\ ~panicked /\ mainpc = "config"
    /\ hist.calls < MaxCalls
    /\ \E level \in Levels :
           /\ g' = [g EXCEPT !.difficulty = level]
           /\ hist' = [hist EXCEPT !.calls = @ + 1, !.level = level,
                                   !.err = (level < 1 \/ level > 5),
                                   !.before = g.difficulty]
    /\ UNCHANGED <<deadlinePassed, timerFired, wpc, attempt, grid, stack, jig, carve,
                   orchVars, panicked, regVars, parVars, extVars>>

(* SetDifficulty(level): an error and no change if level < 1 || level > 5, else
   g.difficulty = level and nil *)
SetDifficulty ==
    /\ ~panicked /\ mainpc = "config"
    /\ hist.calls < MaxCalls
    /\ \E level \in Levels :
           LET bad == level < 1 \/ level > 5
           IN  /\ g' = IF bad THEN g ELSE [g EXCEPT !.difficulty = level]
               /\ hist' = [hist EXCEPT !.calls = @ + 1, !.level = level, !.err = bad,
                                       !.before = g.difficulty]
    /\ UNCHANGED <<deadlinePassed, timerFired, wpc, attempt, grid, stack, jig, carve,
                   orchVars, panicked, regVars, parVars, extVars>>

(* Generate is called: startTime taken, the channels made, the workers and the closing
   goroutine started, and the caller is at its select *)
GenerateCall ==
    /\ ~panicked /\ mainpc = "config"
    /\ wpc' = [w \in Workers |-> "loop"]
    /\ wg' = g.threads
    /\ closerpc' = "wait"
    /\ mainpc' = "select"
    /\ hist' = NoHist(g.threads)
    /\ UNCHANGED <<g, deadlinePassed, timerFired, attempt, grid, stack, jig, carve,
                   stopClosed, resultClosed, errorChan, ret, panicked, regVars, parVars, extVars>>

(* bounds of the runs explored *)
Threads == 2

MaxRetries == 4

(* the whole Generate, from the caller's select on: several workers race on the 1x1
   grid, one worker makes 2x2 jigsaw puzzles *)
Racing ==
    {Generator(1, typ, threads, maxRetries, 1) :
        typ \in {Normal, Jigsaw}, threads \in 1 .. Threads, maxRetries \in 1 .. MaxRetries}
    \cup {Generator(2, Jigsaw, 1, maxRetries, d) : maxRetries \in 1 .. 2, d \in {1, 5}}

(* one worker on the 4x4 box layout, while the caller has not reached its select *)
Alone == {Generator(4, Normal, 1, 1, 1)}

(* one worker that has not begun when the deadline passes: the 3x3 jigsaw layout and
   the box layouts of the supported sizes *)
Late ==
    {Generator(3, Jigsaw, 1, 1, 1)} \cup {Generator(size, Normal, 1, 1, 1) : size \in {9, 12, 16}}

(* 3x3 jigsaw layouts as generateJigsawRegionsSerial grows them; on the last one the
   search can run into cells without a legal value and has to backtrack *)
Layouts3 ==
    { << <<0, 1, 3>>, <<2, 5, 4>>, <<6, 7, 8>> >>,
      << <<4, 7, 8>>, <<0, 3, 6>>, <<1, 2, 5>> >>,
      << <<1, 2, 0>>, <<3, 6, 4>>, <<5, 8, 7>> >> }

(* a solved grid of the box layout of width w and height h *)
SolvedBox(size, w, h) ==
    [r \in Rng(size) |-> [c \in Rng(size) |-> (((r % h) * w + (r \div h) + c) % size) + 1]]

BoxWidthOf(size) == IF ISqrt(size) * ISqrt(size) = size THEN ISqrt(size) ELSE DefaultBoxWidth

BoxHeightOf(size) == IF ISqrt(size) * ISqrt(size) = size THEN ISqrt(size) ELSE DefaultBoxHeight

(* the grid of a worker whose solve has just returned true on a supported size *)
SolvedGrid(size) ==
    [NewGrid(size) EXCEPT !.SubGrids = generateNormalSubgrids(size),
                          !.Puzzle = SolvedBox(size, BoxWidthOf(size), BoxHeightOf(size))]

Init ==
    \/ \E maxRetries \in 1 .. 2 : Configuring(Generator(2, Jigsaw, 1, maxRetries, 1))
    \/ \E gen \in Racing : Started(gen, "select", FALSE, "loop", Nil)
    \/ \E gen \in Alone : Started(gen, "starting", FALSE, "loop", Nil)
    \/ \E gen \in Late : Started(gen, "starting", TRUE, "loop", Nil)
    \/ \E regions \in Layouts3 :
           Started(Generator(3, Jigsaw, 1, 1, 1), "starting", FALSE, "solve",
                   [NewGrid(3) EXCEPT !.SubGrids = regions])
    \/ \E size \in {9, 12, 16}, d \in 1 .. 5 :
           Started(Generator(size, Normal, 1, 1, d), IF size = 9 THEN "select" ELSE "starting",
                   TRUE, "solved", SolvedGrid(size))

Next ==
    \/ \E w \in Workers : WorkerExit(w)
    \/ \E w \in Workers : WorkerAttempt(w)
    \/ \E w \in Workers : JigSeed(w)
    \/ \E w \in Workers : JigGrow(w)
    \/ \E w \in Workers : JigStuck(w)
    \/ \E w \in Workers : JigReturn(w)
    \/ \E w \in Workers : JigFail(w)
    \/ \E w \in Workers : SolveCall(w)
    \/ \E w \in Workers : SolveTry(w)
    \/ \E w \in Workers : SolveExhausted(w)
    \/ \E w \in Workers : SolveUndo(w)
    \/ \E w \in Workers : SolveFailed(w)
    \/ \E w \in Workers : SolveDone(w)
    \/ \E w \in Workers : RemoveStep(w)
    \/ \E w \in Workers : RemoveDone(w)
    \/ \E w \in Workers : Publish(w)
    \/ \E w \in Workers : WorkerCloseStop(w)
    \/ \E w \in Workers : WorkerStopped(w)
    \/ SetDifficulty
    \/ GenerateCall
    \/ CloserWait
    \/ CloserSelect
    \/ CloserClose
    \/ MainRecvClosed
    \/ MainRecvError
    \/ MainTimeout
    \/ MainWait
    \/ DeadlinePass
    \/ \E w \in Workers : AttemptBudgetPass(w)
    \/ TimerFire

Spec == Init /\ [][Next]_vars

-----------------------------------------------------------------------------
(* The whole Generate under fair scheduling: the caller is in its select, the workers
   and the closing goroutine run.  Some enabled step is always taken in the end: the
   scheduler runs a goroutine that can run, and the clock and the timer advance. *)

LiveGens ==
    {Generator(1, typ, threads, maxRetries, 1) :
        typ \in {Normal, Jigsaw}, threads \in 1 .. Threads, maxRetries \in 1 .. 2}
    \cup {Generator(2, Jigsaw, 1, 1, 1)}

LiveInit ==
    \/ \E gen \in LiveGens : Started(gen, "select", FALSE, "loop", Nil)
    \/ Started(Generator(3, Jigsaw, 1, 1, 1), "select", TRUE, "loop", Nil)
    \/ Started(Generator(9, Normal, 1, 1, 1), "select", TRUE, "solved", SolvedGrid(9))

LiveNext ==
    \/ \E w \in Workers : WorkerExit(w)
    \/ \E w \in Workers : WorkerAttempt(w)
    \/ \E w \in Workers : JigSeed(w)
    \/ \E w \in Workers : JigGrow(w)
    \/ \E w \in Workers : JigStuck(w)
    \/ \E w \in Workers : JigReturn(w)
    \/ \E w \in Workers : JigFail(w)
    \/ \E w \in Workers : SolveCall(w)
    \/ \E w \in Workers : SolveTry(w)
    \/ \E w \in Workers : SolveExhausted(w)
    \/ \E w \in Workers : SolveUndo(w)
    \/ \E w \in Workers : SolveFailed(w)
    \/ \E w \in Workers : SolveDone(w)
    \/ \E w \in Workers : RemoveStep(w)
    \/ \E w \in Workers : RemoveDone(w)
    \/ \E w \in Workers : Publish(w)
    \/ \E w \in Workers : WorkerCloseStop(w)
    \/ \E w \in Workers : WorkerStopped(w)
    \/ CloserWait
    \/ CloserSelect
    \/ CloserClose
    \/ MainRecvClosed
    \/ MainRecvError
    \/ MainTimeout
    \/ MainWait
    \/ DeadlinePass
    \/ TimerFire

LiveSpec == LiveInit /\ [][LiveNext]_vars /\ WF_vars(LiveNext)

-----------------------------------------------------------------------------
(* One call of generateJigsawRegionsSerial on its own: a single worker makes its one
   attempt on the 1x1, 2x2 and 3x3 grids, up to the return of the region set to the
   worker (which goes on to solve) or of the error (which ends the attempt) *)

JigInit ==
    \E size \in 1 .. 3 : Started(Generator(size, Jigsaw, 1, 1, 1), "starting", FALSE, "loop", Nil)

JigNext ==
    \/ \E w \in Workers : WorkerAttempt(w)
    \/ \E w \in Workers : JigSeed(w)
    \/ \E w \in Workers : JigGrow(w)
    \/ \E w \in Workers : JigStuck(w)
    \/ \E w \in Workers : JigReturn(w)
    \/ \E w \in Workers : JigFail(w)

JigSpec == JigInit /\ [][JigNext]_vars

-----------------------------------------------------------------------------
(* The serial Generate of src/sudoku_gen.go: the caller itself runs the attempts, one
   after the other, with the statements the workers above run (its Grid names the
   cells Cells where the one above names them Puzzle), and returns the first grid
   solve succeeds on *)

(* the retries of the serial Generate (maxRetries := 7 in the source) *)
MaxSerialRetries == 2

(* types.NewGrid of src/types/types.go: Size, Type and zero-filled Cells are set, the
   other fields keep their zero values *)
NewGridOfTypes(size, typ) ==
    [Size |-> size, Cells |-> ZeroCells(size), Type |-> typ, SubGrids |-> Nil,
     Solution |-> Nil, Difficulty |-> 0]

(* the Grid the serial Generate returns: of the fields NewGrid left, Generate and what
   it calls assign SubGrids, Cells and Solution *)
GridOfTypes(gr, size, typ) ==
    [NewGridOfTypes(size, typ) EXCEPT !.SubGrids = gr.SubGrids,
                                      !.Cells = gr.Puzzle,
                                      !.Solution = gr.Solution]

(* the serial Generate at the given place of its first attempt *)
SerialStarted(gen, late, place, gr) ==
    /\ g = gen
    /\ deadlinePassed = late
    /\ timerFired = FALSE
    /\ wpc = [w \in Rng(1) |-> place]
    /\ attempt = [w \in Rng(1) |-> 0]
    /\ grid = [w \in Rng(1) |-> gr]
    /\ stack = [w \in Rng(1) |-> <<>>]
    /\ jig = [w \in Rng(1) |-> NoJig]
    /\ carve = [w \in Rng(1) |-> NoCarve]
    /\ stopClosed = FALSE
    /\ resultClosed = FALSE
    /\ errorChan = <<>>
    /\ wg = 0
    /\ closerpc = "idle"
    /\ mainpc = "serial"
    /\ ret = NoRet
    /\ panicked = FALSE
    /\ attemptChan = <<>>
    /\ ctxDone = FALSE
    /\ doneClosed = FALSE
    /\ errorClosed = FALSE
    /\ ExtIdle
    /\ hist = NoHist(1)

(* return grid, nil *)
SerialReturn ==
    /\ mainpc = "serial"
    /\ At(0, "publish")
    /\ ret' = [kind |-> "puzzle", grid |-> GridOfTypes(grid[0], g.size, g.sudokuType),
               worker |-> 0, attempt |-> attempt[0]]
    /\ wpc' = [wpc EXCEPT ![0] = "done"]
    /\ mainpc' = "done"
    /\ UNCHANGED <<g, deadlinePassed, timerFired, attempt, grid, stack, jig, carve,
                   stopClosed, resultClosed, errorChan, wg, closerpc, panicked, hist,
                   regVars, parVars, extVars>>

(* the loop ends with retries = maxRetries: return nil, errors.New("failed to generate
   valid puzzle") *)
SerialFail ==
    /\ mainpc = "serial"
    /\ At(0, "loop")
    /\ attempt[0] >= AttemptsPerThread
    /\ ret' = [NoRet EXCEPT !.kind = "failed"]
    /\ wpc' = [wpc EXCEPT ![0] = "done"]
    /\ mainpc' = "done"
    /\ UNCHANGED <<g, deadlinePassed, timerFired, attempt, grid, stack, jig, carve,
                   stopClosed, resultClosed, errorChan, wg, closerpc, panicked, hist,
                   regVars, parVars, extVars>>

(* the generators the serial Generate is run on *)
SerialGens ==
    {Generator(1, typ, 1, MaxSerialRetries, 1) : typ \in {Normal, Jigsaw}}
    \cup {Generator(2, Jigsaw, 1, MaxSerialRetries, d) : d \in 1 .. 5}
    \cup {Generator(4, Normal, 1, MaxSerialRetries, 1)}

SerialInit ==
    \/ \E gen \in SerialGens : SerialStarted(gen, FALSE, "loop", Nil)
    \/ SerialStarted(Generator(3, Jigsaw, 1, MaxSerialRetries, 1), TRUE, "loop", Nil)
    \/ \E regions \in Layouts3 :
           SerialStarted(Generator(3, Jigsaw, 1, MaxSerialRetries, 1), FALSE, "solve",
                         [NewGrid(3) EXCEPT !.SubGrids = regions])

SerialNext ==
    \/ WorkerAttempt(0)
    \/ JigSeed(0)
    \/ JigGrow(0)
    \/ JigStuck(0)
    \/ JigReturn(0)
    \/ JigFail(0)
    \/ SolveCall(0)
    \/ SolveTry(0)
    \/ SolveExhausted(0)
    \/ SolveUndo(0)
    \/ SolveFailed(0)
    \/ SolveDone(0)
    \/ RemoveStep(0)
    \/ RemoveDone(0)
    \/ SerialReturn
    \/ SerialFail
    \/ DeadlinePass

SerialSpec == SerialInit /\ [][SerialNext]_vars

-----------------------------------------------------------------------------
(* NewSudokuGenerator of src/main.go, layout "jigsaw": the regions are synthesized by
   generateJigsawRegionsConcurrent before the generator is returned.  g.threads
   stands for runtime.NumCPU() *)

(* the variables this constructor never touches *)
regFrame == <<g, deadlinePassed, timerFired, grid, stack, carve, stopClosed,
              resultClosed, hist, parVars, extVars>>

(* maxAttempts of generateJigsawRegionsConcurrent (1000000 in the source) *)
RegMaxAttempts == 2

(* maxAttempts of generateJigsawRegionsAttempt (1000000 in the source) *)
RegInnerAttempts == 2

(* attemptsPerWorker := maxAttempts / workerCount *)
attemptsPerWorker == RegMaxAttempts \div g.threads

(* close(attemptChan) and close(errorChan) have happened, by the place of the closer *)
AttemptChanClosed == closerpc \in {"closeError", "done"}

ErrorChanClosed == closerpc = "done"

(* the state right after the workers and the closer were started, the caller in
   the select *)
RegStarted(size, numCPU) ==
    /\ g = Generator(size, Jigsaw, numCPU, 7, 1)
    /\ deadlinePassed = FALSE
    /\ timerFired = FALSE
    /\ wpc = [w \in Rng(numCPU) |-> "regloop"]
    /\ attempt = [w \in Rng(numCPU) |-> 0]
    /\ grid = [w \in Rng(numCPU) |-> Nil]
    /\ stack = [w \in Rng(numCPU) |-> <<>>]
    /\ jig = [w \in Rng(numCPU) |-> NoJig]
    /\ carve = [w \in Rng(numCPU) |-> NoCarve]
    /\ stopClosed = FALSE
    /\ resultClosed = FALSE
    /\ errorChan = <<>>
    /\ wg = numCPU
    /\ closerpc = "wait"
    /\ mainpc = "regselect"
    /\ ret = NoRet
    /\ panicked = FALSE
    /\ attemptChan = <<>>
    /\ ctxDone = FALSE
    /\ doneClosed = FALSE
    /\ errorClosed = FALSE
    /\ ExtIdle
    /\ hist = NoHist(numCPU)

(* the 30 second timeout of the context elapses *)
CtxExpire ==
    /\ ~panicked
    /\ mainpc = "regselect"
    /\ ~ctxDone
    /\ ctxDone' = TRUE
    /\ UNCHANGED <<regFrame, wpc, attempt, jig, errorChan, wg, closerpc, mainpc, ret,
                   panicked, attemptChan>>

(* the select at the top of an attempt finds ctx.Done() ready: return, wg.Done() *)
RegWorkerCancelled(w) ==
    /\ At(w, "regloop")
    /\ attempt[w] < attemptsPerWorker
    /\ ctxDone
    /\ wpc' = [wpc EXCEPT ![w] = "done"]
    /\ wg' = wg - 1
    /\ UNCHANGED <<regFrame, attempt, jig, errorChan, closerpc, mainpc, ret, panicked,
                   attemptChan, ctxDone>>

(* the default branch of the select: generateJigsawRegionsAttempt is called *)
RegWorkerAttempt(w) ==
    /\ At(w, "regloop")
    /\ attempt[w] < attemptsPerWorker
    /\ ~ctxDone
    /\ jig' = [jig EXCEPT ![w] = FreshJig(0)]
    /\ wpc' = [wpc EXCEPT ![w] = "regattempt"]
    /\ UNCHANGED <<regFrame, attempt, errorChan, wg, closerpc, mainpc, ret, panicked,
                   attemptChan, ctxDone>>

(* the loop ran out: errorChan <- "worker %d failed after %d attempts", wg.Done() *)
RegWorkerGiveUp(w) ==
    /\ At(w, "regloop")
    /\ attempt[w] >= attemptsPerWorker
    /\ errorChan' = Append(errorChan, w)
    /\ wpc' = [wpc EXCEPT ![w] = "done"]
    /\ wg' = wg - 1
    /\ UNCHANGED <<regFrame, attempt, jig, closerpc, mainpc, ret, panicked,
                   attemptChan, ctxDone>>

(* generateJigsawRegionsAttempt: the start cell of the next region, drawn among the
   cells not yet taken; none left makes the attempt invalid *)
RegSeed(w) ==
    /\ At(w, "regattempt")
    /\ jig[w].attempts < RegInnerAttempts
    /\ jig[w].region = Nil
    /\ jig[w].regionIdx < g.size
    /\ LET potentialStarts == AllCells \ jig[w].used
       IN  IF potentialStarts = {}
           THEN jig' = [jig EXCEPT ![w] = FreshJig(jig[w].attempts + 1)]
           ELSE \E startCell \in potentialStarts :
                    jig' = [jig EXCEPT ![w] =
                               StoreRegion([jig[w] EXCEPT !.region = <<startCell>>,
                                                          !.used = @ \cup {startCell}])]
    /\ UNCHANGED <<regFrame, wpc, attempt, errorChan, wg, closerpc, mainpc, ret,
                   panicked, attemptChan, ctxDone>>

(* the region grows by one candidate *)
RegGrow(w) ==
    /\ At(w, "regattempt")
    /\ jig[w].region # Nil
    /\ \E nextCell \in Candidates(g.size, jig[w].region, jig[w].used) :
           jig' = [jig EXCEPT ![w] =
                      StoreRegion([jig[w] EXCEPT !.region = Append(@, nextCell),
                                                 !.used = @ \cup {nextCell}])]
    /\ UNCHANGED <<regFrame, wpc, attempt, errorChan, wg, closerpc, mainpc, ret,
                   panicked, attemptChan, ctxDone>>

(* no candidate: isValid = false, and the next inner attempt starts afresh *)
RegStuck(w) ==
    /\ At(w, "regattempt")
    /\ jig[w].region # Nil
    /\ Candidates(g.size, jig[w].region, jig[w].used) = {}
    /\ jig' = [jig EXCEPT ![w] = FreshJig(jig[w].attempts + 1)]
    /\ UNCHANGED <<regFrame, wpc, attempt, errorChan, wg, closerpc, mainpc, ret,
                   panicked, attemptChan, ctxDone>>

(* every region grown and every cell taken: the regions are returned to the worker,
   which sends them on attemptChan and returns (wg.Done()) *)
RegAttemptReturn(w) ==
    /\ At(w, "regattempt")
    /\ jig[w].attempts < RegInnerAttempts
    /\ jig[w].region = Nil
    /\ jig[w].regionIdx = g.size
    /\ IF Cardinality(jig[w].used) = g.size * g.size
       THEN /\ attemptChan' = Append(attemptChan, jig[w].regions)
            /\ jig' = [jig EXCEPT ![w] = NoJig]
            /\ wpc' = [wpc EXCEPT ![w] = "done"]
            /\ wg' = wg - 1
       ELSE /\ jig' = [jig EXCEPT ![w] = FreshJig(jig[w].attempts + 1)]
            /\ UNCHANGED <<attemptChan, wpc, wg>>
    /\ UNCHANGED <<regFrame, attempt, errorChan, closerpc, mainpc, ret, panicked,
                   ctxDone>>

(* the inner budget is used up: the attempt returns its error, and the worker's loop
   goes on with attempt++ *)
RegAttemptFail(w) ==
    /\ At(w, "regattempt")
    /\ jig[w].attempts >= RegInnerAttempts
    /\ jig' = [jig EXCEPT ![w] = NoJig]
    /\ attempt' = [attempt EXCEPT ![w] = @ + 1]
    /\ wpc' = [wpc EXCEPT ![w] = "regloop"]
    /\ UNCHANGED <<regFrame, errorChan, wg, closerpc, mainpc, ret, panicked,
                   attemptChan, ctxDone>>

(* the closing goroutine: wg.Wait() returns once every worker has returned *)
RegCloserWait ==
    /\ ~panicked
    /\ closerpc = "wait"
    /\ wg = 0
    /\ closerpc' = "closeAttempt"
    /\ UNCHANGED <<regFrame, wpc, attempt, jig, errorChan, wg, mainpc, ret, panicked,
                   attemptChan, ctxDone>>

(* close(attemptChan) *)
RegCloseAttempt ==
    /\ ~panicked
    /\ closerpc = "closeAttempt"
    /\ closerpc' = "closeError"
    /\ UNCHANGED <<regFrame, wpc, attempt, jig, errorChan, wg, mainpc, ret, panicked,
                   attemptChan, ctxDone>>

(* close(errorChan) *)
RegCloseError ==
    /\ ~panicked
    /\ closerpc = "closeError"
    /\ closerpc' = "done"
    /\ UNCHANGED <<regFrame, wpc, attempt, jig, errorChan, wg, mainpc, ret, panicked,
                   attemptChan, ctxDone>>

(* generateJigsawRegionsConcurrent returns (regions, err) with err one of "nil",
   "timeout", "workerFailed": the deferred cancel() runs, and NewSudokuGenerator
   panics on an error, and otherwise returns the generator *)
NewGenReturns(regions, err) ==
    /\ ret' = [kind |-> err, grid |-> regions, worker |-> -1, attempt |-> -1]
    /\ ctxDone' = TRUE
    /\ panicked' = (err # "nil")
    /\ mainpc' = "done"

(* case regions := <-attemptChan: a buffered region set, or the zero value of a
   closed and drained channel *)
RegRecvRegions ==
    /\ ~panicked
    /\ mainpc = "regselect"
    /\ IF attemptChan # <<>>
       THEN /\ NewGenReturns(Head(attemptChan), "nil")
            /\ attemptChan' = Tail(attemptChan)
       ELSE /\ AttemptChanClosed
            /\ NewGenReturns(Nil, "nil")
            /\ UNCHANGED attemptChan
    /\ UNCHANGED <<regFrame, wpc, attempt, jig, errorChan, wg, closerpc>>

(* case <-ctx.Done() *)
RegTimeout ==
    /\ ~panicked
    /\ mainpc = "regselect"
    /\ ctxDone
    /\ NewGenReturns(Nil, "timeout")
    /\ UNCHANGED <<regFrame, wpc, attempt, jig, errorChan, wg, closerpc, attemptChan>>

(* case err := <-errorChan: a worker's error, or the nil of a closed and drained
   channel *)
RegRecvError ==
    /\ ~panicked
    /\ mainpc = "regselect"
    /\ IF errorChan # <<>>
       THEN /\ NewGenReturns(Nil, "workerFailed")
            /\ errorChan' = Tail(errorChan)
       ELSE /\ ErrorChanClosed
            /\ NewGenReturns(Nil, "nil")
            /\ UNCHANGED errorChan
    /\ UNCHANGED <<regFrame, wpc, attempt, jig, wg, closerpc, attemptChan>>

(* sizes and processor counts: two workers on the 2x2 grid, where growth cannot get
   stuck, and one worker on the 3x3 grid, where it can *)
NewGenInit ==
    \/ RegStarted(2, 2)
    \/ RegStarted(2, 1)
    \/ RegStarted(3, 1)

NewGenNext ==
    \/ CtxExpire
    \/ \E w \in Workers : RegWorkerCancelled(w)
    \/ \E w \in Workers : RegWorkerAttempt(w)
    \/ \E w \in Workers : RegWorkerGiveUp(w)
    \/ \E w \in Workers : RegSeed(w)
    \/ \E w \in Workers : RegGrow(w)
    \/ \E w \in Workers : RegStuck(w)
    \/ \E w \in Workers : RegAttemptReturn(w)
    \/ \E w \in Workers : RegAttemptFail(w)
    \/ RegCloserWait
    \/ RegCloseAttempt
    \/ RegCloseError
    \/ RegRecvRegions
    \/ RegTimeout
    \/ RegRecvError

NewGenSpec == NewGenInit /\ [][NewGenNext]_vars

-----------------------------------------------------------------------------
(* generateJigsawRegionsParallel of the classic generator: the threads workers share
   the unbuffered resultChan and errorChan and the close-only doneChan *)

parFrame == <<g, deadlinePassed, timerFired, grid, stack, carve, stopClosed, errorChan,
              wg, closerpc, regVars, extVars, hist>>

(* maxAttempts of generateJigsawRegionsParallel (1000000 in the source) *)
ParMaxAttempts == 2

(* attemptsPerThread := maxAttempts / g.threads; attempt[w] counts the attempts of
   worker w from its startProgress *)
attemptsPerThread == ParMaxAttempts \div g.threads

(* the state right after the workers were started, the caller in its select; a
   worker in used has by now run through its quota without a valid region set *)
ParStarted(size, threads, used) ==
    /\ g = Generator(size, Jigsaw, threads, 1, 1)
    /\ deadlinePassed = FALSE
    /\ timerFired = FALSE
    /\ wpc = [w \in Rng(threads) |-> "parloop"]
    /\ attempt = [w \in Rng(threads) |-> IF w \in used THEN attemptsPerThread ELSE 0]
    /\ grid = [w \in Rng(threads) |-> Nil]
    /\ stack = [w \in Rng(threads) |-> <<>>]
    /\ jig = [w \in Rng(threads) |-> NoJig]
    /\ carve = [w \in Rng(threads) |-> NoCarve]
    /\ stopClosed = FALSE
    /\ resultClosed = FALSE
    /\ errorChan = <<>>
    /\ wg = 0
    /\ closerpc = "none"
    /\ mainpc = "parselect"
    /\ ret = NoRet
    /\ panicked = FALSE
    /\ attemptChan = <<>>
    /\ ctxDone = FALSE
    /\ doneClosed = FALSE
    /\ errorClosed = FALSE
    /\ ExtIdle
    /\ hist = NoHist(threads)

(* case <-doneChan at the top of the loop: the worker returns *)
ParWorkerDone(w) ==
    /\ At(w, "parloop")
    /\ attempt[w] < attemptsPerThread
    /\ doneClosed
    /\ wpc' = [wpc EXCEPT ![w] = "done"]
    /\ UNCHANGED <<parFrame, parVars, attempt, jig, resultClosed, mainpc, ret, panicked>>

(* the default branch: tryGenerateJigsawRegions is called *)
ParWorkerTry(w) ==
    /\ At(w, "parloop")
    /\ attempt[w] < attemptsPerThread
    /\ ~doneClosed
    /\ jig' = [jig EXCEPT ![w] = FreshJig(0)]
    /\ wpc' = [wpc EXCEPT ![w] = "partry"]
    /\ UNCHANGED <<parFrame, parVars, attempt, resultClosed, mainpc, ret, panicked>>

(* tryGenerateJigsawRegions: the start cell of the next region, drawn among the cells
   not yet used *)
ParSeed(w) ==
    /\ At(w, "partry")
    /\ jig[w].region = Nil
    /\ jig[w].regionIdx < g.size
    /\ \E start \in AllCells \ jig[w].used :
           jig' = [jig EXCEPT ![w] =
                      StoreRegion([jig[w] EXCEPT !.region = <<start>>,
                                                 !.used = @ \cup {start}])]
    /\ UNCHANGED <<parFrame, parVars, wpc, attempt, resultClosed, mainpc, ret, panicked>>

(* the region grows by one candidate *)
ParGrow(w) ==
    /\ At(w, "partry")
    /\ jig[w].region # Nil
    /\ \E next \in Candidates(g.size, jig[w].region, jig[w].used) :
           jig' = [jig EXCEPT ![w] =
                      StoreRegion([jig[w] EXCEPT !.region = Append(@, next),
                                                 !.used = @ \cup {next}])]
    /\ UNCHANGED <<parFrame, parVars, wpc, attempt, resultClosed, mainpc, ret, panicked>>

(* return nil, false: no cell available for a start, no candidate for the growth, or
   cells left over at the end; the worker's loop goes on with attempts++ *)
ParInvalid(w) ==
    /\ At(w, "partry")
    /\ \/ /\ jig[w].region = Nil
          /\ jig[w].regionIdx < g.size
          /\ AllCells \ jig[w].used = {}
       \/ /\ jig[w].region # Nil
          /\ Candidates(g.size, jig[w].region, jig[w].used) = {}
       \/ /\ jig[w].region = Nil
          /\ jig[w].regionIdx = g.size
          /\ Cardinality(jig[w].used) # g.size * g.size
    /\ jig' = [jig EXCEPT ![w] = NoJig]
    /\ attempt' = [attempt EXCEPT ![w] = @ + 1]
    /\ wpc' = [wpc EXCEPT ![w] = "parloop"]
    /\ UNCHANGED <<parFrame, parVars, resultClosed, mainpc, ret, panicked>>

(* return regions, true: the worker goes to its send resultChan <- regions *)
ParValid(w) ==
    /\ At(w, "partry")
    /\ jig[w].region = Nil
    /\ jig[w].regionIdx = g.size
    /\ Cardinality(jig[w].used) = g.size * g.size
    /\ wpc' = [wpc EXCEPT ![w] = "parsend"]
    /\ UNCHANGED <<parFrame, parVars, attempt, jig, resultClosed, mainpc, ret, panicked>>

(* the loop ran through the quota: thread 0 goes to its send on errorChan, every
   other worker returns *)
ParWorkerEnd(w) ==
    /\ At(w, "parloop")
    /\ attempt[w] >= attemptsPerThread
    /\ wpc' = [wpc EXCEPT ![w] = IF w = 0 THEN "parerr" ELSE "done"]
    /\ UNCHANGED <<parFrame, parVars, attempt, jig, resultClosed, mainpc, ret, panicked>>

(* a send finds its channel closed: the runtime panics (send on closed channel) *)
ParSendOnClosed(w) ==
    /\ \/ At(w, "parsend") /\ resultClosed
       \/ At(w, "parerr") /\ errorClosed
    /\ panicked' = TRUE
    /\ UNCHANGED <<parFrame, parVars, wpc, attempt, jig, resultClosed, mainpc, ret>>

(* case regions := <-resultChan meets the send of worker w, which returns *)
ParRecvRegions(w) ==
    /\ ~panicked
    /\ mainpc = "parselect"
    /\ wpc[w] = "parsend"
    /\ ~resultClosed
    /\ ret' = [kind |-> "regions", grid |-> jig[w].regions, worker |-> w,
               attempt |-> attempt[w]]
    /\ wpc' = [wpc EXCEPT ![w] = "done"]
    /\ mainpc' = "closeResult"
    /\ UNCHANGED <<parFrame, parVars, attempt, jig, resultClosed, panicked>>

(* close(resultChan) *)
ParCloseResult ==
    /\ ~panicked
    /\ mainpc = "closeResult"
    /\ resultClosed' = TRUE
    /\ mainpc' = "return"
    /\ UNCHANGED <<parFrame, parVars, wpc, attempt, jig, ret, panicked>>

(* case err := <-errorChan meets the send of thread 0, which returns *)
ParRecvError ==
    /\ ~panicked
    /\ mainpc = "parselect"
    /\ wpc[0] = "parerr"
    /\ ~errorClosed
    /\ ret' = [kind |-> "failed", grid |-> Nil, worker |-> 0, attempt |-> attempt[0]]
    /\ wpc' = [wpc EXCEPT ![0] = "done"]
    /\ mainpc' = "closeError"
    /\ UNCHANGED <<parFrame, parVars, attempt, jig, resultClosed, panicked>>

(* close(errorChan) *)
ParCloseError ==
    /\ ~panicked
    /\ mainpc = "closeError"
    /\ errorClosed' = TRUE
    /\ mainpc' = "return"
    /\ UNCHANGED <<parFrame, doneClosed, wpc, attempt, jig, resultClosed, ret, panicked>>

(* the return, with the deferred close(doneChan) *)
ParReturn ==
    /\ ~panicked
    /\ mainpc = "return"
    /\ doneClosed' = TRUE
    /\ mainpc' = "done"
    /\ UNCHANGED <<parFrame, errorClosed, wpc, attempt, jig, resultClosed, ret, panicked>>

(* two threads on the 1x1 and the 2x2 grid, where every attempt is valid, and on the
   3x3 grid, where growth can get stuck, with one of the two already through its
   quota *)
ParInit ==
    \/ \E size \in 1 .. 2 : ParStarted(size, 2, {})
    \/ \E v \in 0 .. 1 : ParStarted(3, 2, {v})

ParNext ==
    \/ \E w \in Workers : ParWorkerDone(w)
    \/ \E w \in Workers : ParWorkerTry(w)
    \/ \E w \in Workers : ParSeed(w)
    \/ \E w \in Workers : ParGrow(w)
    \/ \E w \in Workers : ParInvalid(w)
    \/ \E w \in Workers : ParValid(w)
    \/ \E w \in Workers : ParWorkerEnd(w)
    \/ \E w \in Workers : ParSendOnClosed(w)
    \/ \E w \in Workers : ParRecvRegions(w)
    \/ ParCloseResult
    \/ ParRecvError
    \/ ParCloseError
    \/ ParReturn

ParSpec == ParInit /\ [][ParNext]_vars

-----------------------------------------------------------------------------
(* ConcurrentPuzzleGenerator of src/main.go: workerCount workers, each of which sends
   one puzzle and returns; the caller collects count values from puzzleChan.  Here g
   holds the arguments: count, runtime.NumCPU() and whether progressChan is non-nil
   (and then read by its consumer) *)

(* the variables of Generate and of region synthesis are not in use by n goroutines *)
GenerateIdle(n) ==
    /\ deadlinePassed = FALSE
    /\ timerFired = FALSE
    /\ stack = [w \in Rng(n) |-> <<>>]
    /\ jig = [w \in Rng(n) |-> NoJig]
    /\ carve = [w \in Rng(n) |-> NoCarve]
    /\ stopClosed = FALSE
    /\ resultClosed = FALSE
    /\ errorChan = <<>>
    /\ attemptChan = <<>>
    /\ ctxDone = FALSE
    /\ doneClosed = FALSE
    /\ errorClosed = FALSE
    /\ hist = NoHist(n)

cpgFrame == <<g, deadlinePassed, timerFired, grid, stack, jig, carve, stopClosed,
              resultClosed, errorChan, panicked, regVars, parVars, scan, store, up, cmd,
              hist>>

(* the largest count and the largest number of processors explored *)
MaxCount == 3

MaxCPU == 2

(* how often createPuzzle may fail for one worker before it succeeds *)
MaxCreateFails == 1

(* workerCount := int(math.Min(float64(count), float64(runtime.NumCPU()))) *)
workerCount(count, numCPU) == IF count < numCPU THEN count ELSE numCPU

(* the state after the workers and the closing goroutine were started: puzzles is
   make([]*SudokuPuzzle, count), the caller is at its collecting loop with i = 0 *)
CpgStarted(count, numCPU, progress) ==
    /\ g = [count |-> count, numCPU |-> numCPU, progress |-> progress]
    /\ GenerateIdle(workerCount(count, numCPU))
    /\ wpc = [w \in Rng(workerCount(count, numCPU)) |-> "create"]
    /\ attempt = [w \in Rng(workerCount(count, numCPU)) |-> 0]
    /\ grid = [w \in Rng(workerCount(count, numCPU)) |-> Nil]
    /\ wg = workerCount(count, numCPU)
    /\ closerpc = "wait"
    /\ mainpc = "collect"
    /\ ret = NoRet
    /\ panicked = FALSE
    /\ puzzleChan = <<>>
    /\ puzzles = [slice |-> [k \in 1 .. count |-> Nil], i |-> 0]
    /\ scan = 0
    /\ store = {}
    /\ up = NoUpload
    /\ cmd = NoCmd

(* generator.createPuzzle(difficulty) returns an error: the worker's loop goes on;
   attempt[w] counts these failures *)
CpgCreateFails(w) ==
    /\ wpc[w] = "create"
    /\ attempt[w] < MaxCreateFails
    /\ attempt' = [attempt EXCEPT ![w] = @ + 1]
    /\ UNCHANGED <<cpgFrame, wpc, wg, closerpc, mainpc, ret, puzzleChan, puzzles>>

(* createPuzzle returns a puzzle: puzzleChan <- puzzle (the buffer has room for count
   values); with a nil progressChan the worker returns, and wg.Done() runs *)
CpgCreate(w) ==
    /\ wpc[w] = "create"
    /\ puzzleChan' = Append(puzzleChan, [worker |-> w])
    /\ IF g.progress
       THEN /\ wpc' = [wpc EXCEPT ![w] = "report"]
            /\ UNCHANGED wg
       ELSE /\ wpc' = [wpc EXCEPT ![w] = "done"]
            /\ wg' = wg - 1
    /\ UNCHANGED <<cpgFrame, attempt, closerpc, mainpc, ret, puzzles>>

(* progressChan <- ProgressReport{...} is received; the worker returns *)
CpgReport(w) ==
    /\ wpc[w] = "report"
    /\ wpc' = [wpc EXCEPT ![w] = "done"]
    /\ wg' = wg - 1
    /\ UNCHANGED <<cpgFrame, attempt, closerpc, mainpc, ret, puzzleChan, puzzles>>

(* the closing goroutine: wg.Wait() returns *)
CpgCloserWait ==
    /\ closerpc = "wait"
    /\ wg = 0
    /\ closerpc' = "close"
    /\ UNCHANGED <<cpgFrame, wpc, attempt, wg, mainpc, ret, puzzleChan, puzzles>>

(* close(puzzleChan) *)
CpgClose ==
    /\ closerpc = "close"
    /\ closerpc' = "done"
    /\ UNCHANGED <<cpgFrame, wpc, attempt, wg, mainpc, ret, puzzleChan, puzzles>>

(* puzzles[i] = <-puzzleChan: a buffered puzzle, or the nil of the closed and drained
   channel *)
CpgCollect ==
    /\ mainpc = "collect"
    /\ puzzles.i < g.count
    /\ IF puzzleChan # <<>>
       THEN /\ puzzles' = [puzzles EXCEPT !.slice[puzzles.i + 1] = Head(puzzleChan),
                                          !.i = @ + 1]
            /\ puzzleChan' = Tail(puzzleChan)
       ELSE /\ closerpc = "done"
            /\ puzzles' = [puzzles EXCEPT !.slice[puzzles.i + 1] = Nil, !.i = @ + 1]
            /\ UNCHANGED puzzleChan
    /\ UNCHANGED <<cpgFrame, wpc, attempt, wg, closerpc, mainpc, ret>>

(* return puzzles *)
CpgReturn ==
    /\ mainpc = "collect"
    /\ puzzles.i >= g.count
    /\ ret' = [kind |-> "puzzles", grid |-> puzzles.slice, worker |-> -1, attempt |-> -1]
    /\ mainpc' = "done"
    /\ UNCHANGED <<cpgFrame, wpc, attempt, wg, closerpc, puzzleChan, puzzles>>

CpgInit ==
    \E count \in 1 .. MaxCount, numCPU \in 1 .. MaxCPU, progress \in BOOLEAN :
        CpgStarted(count, numCPU, progress)

CpgNext ==
    \/ \E w \in DOMAIN wpc : CpgCreateFails(w)
    \/ \E w \in DOMAIN wpc : CpgCreate(w)
    \/ \E w \in DOMAIN wpc : CpgReport(w)
    \/ CpgCloserWait
    \/ CpgClose
    \/ CpgCollect
    \/ CpgReturn

CpgSpec == CpgInit /\ [][CpgNext]_vars

-----------------------------------------------------------------------------
(* The box layout of the serial generator (src/sudoku_gen.go) on the supported sizes,
   and the first scan for an empty cell that its solve makes on the fresh grid *)

(* int(math.Sqrt(float64(n))) *)
IntSqrt(n) == CHOOSE r \in 0 .. n : r * r <= n /\ n < (r + 1) * (r + 1)

(* generateNormalSubgrids of src/sudoku_gen.go: regions is make([][]int, g.size), and
   the entries boxRow*boxSize+boxCol with boxRow, boxCol < boxSize are assigned the
   cells of a boxSize x boxSize square; the other entries stay nil *)
serialNormalSubgrids(size) ==
    LET boxSize == IntSqrt(size)
        region(boxRow, boxCol) ==
            [m \in 1 .. boxSize * boxSize |->
                (boxRow * boxSize + ((m - 1) \div boxSize)) * size
                    + (boxCol * boxSize) + ((m - 1) % boxSize)]
    IN  [k \in 1 .. size |->
            IF k - 1 < boxSize * boxSize
            THEN region((k - 1) \div boxSize, (k - 1) % boxSize)
            ELSE Nil]

(* the sizes the command-line program accepts *)
SupportedSizes == {9, 12, 16}

scanFrame == <<deadlinePassed, timerFired, attempt, stack, jig, carve, orchVars, regVars,
               parVars, puzzleChan, puzzles, store, up, cmd, hist>>

(* the serial Generate of a Normal generator at the top of its first attempt *)
ScanStarted(size) ==
    /\ g = Generator(size, Normal, 1, MaxSerialRetries, 1)
    /\ GenerateIdle(1)
    /\ wpc = [w \in Rng(1) |-> "loop"]
    /\ attempt = [w \in Rng(1) |-> 0]
    /\ grid = [w \in Rng(1) |-> Nil]
    /\ wg = 0
    /\ closerpc = "idle"
    /\ mainpc = "serial"
    /\ ret = NoRet
    /\ panicked = FALSE
    /\ ExtIdle

(* grid := types.NewGrid(..); grid.SubGrids = g.generateNormalSubgrids(); solve is
   called and, the deadline not passed, calls findEmptyPositionWithMRV *)
ScanBegin ==
    /\ At(0, "loop")
    /\ grid' = [grid EXCEPT ![0] = [NewGridOfTypes(g.size, g.sudokuType)
                                       EXCEPT !.SubGrids = serialNormalSubgrids(g.size)]]
    /\ wpc' = [wpc EXCEPT ![0] = "scan"]
    /\ scan' = 0
    /\ UNCHANGED <<scanFrame, g, panicked>>

(* findEmptyPositionWithMRV at cell scan of the all-empty grid: isValid passes its row
   and column checks and looks the region of the cell up; grid.SubGrids[-1] panics *)
ScanCell ==
    /\ At(0, "scan")
    /\ scan < g.size * g.size
    /\ IF findRegionIndex(grid[0].SubGrids, scan) = -1
       THEN /\ panicked' = TRUE
            /\ UNCHANGED scan
       ELSE /\ scan' = scan + 1
            /\ UNCHANGED panicked
    /\ UNCHANGED <<scanFrame, g, wpc, grid>>

(* every cell was counted: the scan returns its best position *)
ScanEnd ==
    /\ At(0, "scan")
    /\ scan >= g.size * g.size
    /\ wpc' = [wpc EXCEPT ![0] = "chosen"]
    /\ UNCHANGED <<scanFrame, g, grid, scan, panicked>>

ScanInit == \E size \in SupportedSizes : ScanStarted(size)

ScanNext ==
    \/ ScanBegin
    \/ ScanCell
    \/ ScanEnd

ScanSpec == ScanInit /\ [][ScanNext]_vars

-----------------------------------------------------------------------------
(* db.UploadSudoku of src/db/db.go and its two callers: the command-line program of
   src/cmd/sudoku/main.go, whose ids come from generateID, and the program of
   src/unnamed/part_003, whose ids come from generateSudokuID.  A string is the
   sequence of its characters; the record store holds an id and a payload per record *)

(* the digits of encoding/hex and of strconv.FormatInt in base 36 *)
Digits ==
    <<"0", "1", "2", "3", "4", "5", "6", "7", "8", "9", "a", "b", "c", "d", "e", "f", "g",
      "h", "i", "j", "k", "l", "m", "n", "o", "p", "q", "r", "s", "t", "u", "v", "w", "x",
      "y", "z">>

(* hex.EncodeToString: two digits per byte, the high nibble first *)
EncodeToString(bytes) ==
    [k \in 1 .. 2 * Len(bytes) |->
        IF k % 2 = 1 THEN Digits[(bytes[(k + 1) \div 2] \div 16) + 1]
        ELSE Digits[(bytes[k \div 2] % 16) + 1]]

(* bytes := make([]byte, 15) *)
IDBytes == 15

(* the values rand.Read is taken to fill the odd and the even bytes with *)
ByteSamples == {0, 9, 171, 255}

(* generateID of src/cmd/sudoku/main.go, for the random bytes b1 b2 b1 b2 ... *)
generateID(b1, b2) ==
    EncodeToString([k \in 1 .. IDBytes |-> IF k % 2 = 1 THEN b1 ELSE b2])

RECURSIVE FormatInt(_, _)
(* strconv.FormatInt(v, base) for v >= 0 *)
FormatInt(v, base) ==
    IF v < base THEN <<Digits[v + 1]>>
    ELSE Append(FormatInt(v \div base, base), Digits[(v % base) + 1])

(* values of hash & 0x7fffffff that stand for the hashes of the generated grids *)
HashSamples == {0, 35, 36, 46655, 60466176, 2147483647}

(* generateSudokuID of src/unnamed/part_003, from the value hash&0x7fffffff its loop
   over the characters has computed: base 36, cut to the first 6 characters *)
generateSudokuID(hash) ==
    LET id == FormatInt(hash, 36)
    IN  IF Len(id) > 6 THEN SubSeq(id, 1, 6) ELSE id

(* len(id) > 6 of UploadSudoku *)
MaxIDLen == 6

(* maxMainRetries := 10 of the command-line program *)
MaxMainRetries == 2

(* the largest count entered at "How many puzzles to generate" (100 in the source) *)
MaxPuzzles == 2

upFrame == <<g, deadlinePassed, timerFired, wpc, attempt, grid, stack, jig, carve,
             orchVars, panicked, regVars, parVars, puzzleChan, puzzles, scan, hist>>

(* the program prog after its prompts, at the top of its loop over the puzzles *)
CmdStarted(prog, numPuzzles) ==
    /\ g = Generator(9, Normal, 1, MaxMainRetries, 1)
    /\ GenerateIdle(1)
    /\ wpc = [w \in Rng(1) |-> "idle"]
    /\ attempt = [w \in Rng(1) |-> 0]
    /\ grid = [w \in Rng(1) |-> Nil]
    /\ wg = 0
    /\ closerpc = "idle"
    /\ mainpc = "idle"
    /\ ret = NoRet
    /\ panicked = FALSE
    /\ puzzleChan = <<>>
    /\ puzzles = <<>>
    /\ scan = 0
    /\ store = {}
    /\ up = NoUpload
    /\ cmd = [NoCmd EXCEPT !.prog = prog, !.pc = "loop", !.numPuzzles = numPuzzles]

(* UploadSudoku(sudokuData) is called with the given id *)
UploadCalled(id) ==
    [pc |-> "validate", id |-> id, payload |-> cmd.i + cmd.successfulPuzzles,
     exists |-> "unchecked", ret |-> "none"]

(* the validation accepts every string *)
UploadValidate_AnyLength ==
    /\ up.pc = "validate"
    /\ up' = IF ~up.id.ok
             THEN [up EXCEPT !.pc = "returned", !.ret = "invalidID"]
             ELSE [up EXCEPT !.pc = "exists"]
    /\ UNCHANGED <<upFrame, store, cmd>>

(* id, ok := sudokuData["id"].(string); if !ok || len(id) > 6 the call returns its
   "invalid ID" error; otherwise the data to store is built *)
UploadValidate ==
    /\ up.pc = "validate"
    /\ up' = IF ~up.id.ok \/ Len(up.id.s) > MaxIDLen
             THEN [up EXCEPT !.pc = "returned", !.ret = "invalidID"]
             ELSE [up EXCEPT !.pc = "exists"]
    /\ UNCHANGED <<upFrame, store, cmd>>

(* SudokuExists: client.One fails with an error that is not a 404; UploadSudoku
   returns "failed to check if sudoku exists" *)
UploadCheckFails ==
    /\ up.pc = "exists"
    /\ up' = [up EXCEPT !.pc = "returned", !.exists = "failed", !.ret = "checkFailed"]
    /\ UNCHANGED <<upFrame, store, cmd>>

(* SudokuExists: client.One finds the record; UploadSudoku returns "already exists" *)
UploadExists ==
    /\ up.pc = "exists"
    /\ \E r \in store : r.id = up.id.s
    /\ up' = [up EXCEPT !.pc = "returned", !.exists = "yes", !.ret = "exists"]
    /\ UNCHANGED <<upFrame, store, cmd>>

(* SudokuExists: client.One answers 404; UploadSudoku goes on to client.Create *)
UploadAbsent ==
    /\ up.pc = "exists"
    /\ ~\E r \in store : r.id = up.id.s
    /\ up' = [up EXCEPT !.pc = "create", !.exists = "no"]
    /\ UNCHANGED <<upFrame, store, cmd>>

(* client.Create("sudokus", data) stores the record; UploadSudoku returns it *)
UploadCreate ==
    /\ up.pc = "create"
    /\ store' = store \cup {[id |-> up.id.s, payload |-> up.payload]}
    /\ up' = [up EXCEPT !.pc = "returned", !.ret = "created"]
    /\ UNCHANGED <<upFrame, cmd>>

(* client.Create fails; UploadSudoku returns "failed to upload sudoku" *)
UploadCreateFails ==
    /\ up.pc = "create"
    /\ up' = [up EXCEPT !.pc = "returned", !.ret = "createFailed"]
    /\ UNCHANGED <<upFrame, store, cmd>>

(* src/cmd/sudoku/main.go: the loop over the puzzles enters its next round, with
   mainRetries := 0 *)
CmdPuzzle ==
    /\ cmd.prog = "cmd"
    /\ cmd.pc = "loop"
    /\ cmd.i < cmd.numPuzzles
    /\ cmd' = [cmd EXCEPT !.pc = "retries", !.mainRetries = 0]
    /\ UNCHANGED <<upFrame, store, up>>

(* the loop over the puzzles is over: main returns *)
CmdExit ==
    /\ cmd.prog = "cmd"
    /\ cmd.pc = "loop"
    /\ cmd.i >= cmd.numPuzzles
    /\ cmd' = [cmd EXCEPT !.pc = "exit"]
    /\ UNCHANGED <<upFrame, store, up>>

(* Generate returns an error, and the user answers "y" to the retry prompt, which is
   shown while mainRetries < maxMainRetries-1: mainRetries++ and continue *)
CmdRetry ==
    /\ cmd.prog = "cmd"
    /\ cmd.pc = "retries"
    /\ cmd.mainRetries < MaxMainRetries
    /\ cmd.mainRetries < MaxMainRetries - 1
    /\ cmd' = [cmd EXCEPT !.mainRetries = @ + 1]
    /\ UNCHANGED <<upFrame, store, up>>

(* Generate returns an error, and there is no retry (no prompt any more, or another
   answer than "y"): break, and the next puzzle is due; so it is when the retry loop's
   condition fails *)
CmdBreak ==
    /\ cmd.prog = "cmd"
    /\ cmd.pc = "retries"
    /\ cmd' = [cmd EXCEPT !.pc = "loop", !.i = @ + 1]
    /\ UNCHANGED <<upFrame, store, up>>

(* Generate returns a grid: sudokuData gets "id": generateID(), and db.UploadSudoku is
   called *)
CmdUpload ==
    /\ cmd.prog = "cmd"
    /\ cmd.pc = "retries"
    /\ cmd.mainRetries < MaxMainRetries
    /\ \E b1 \in ByteSamples, b2 \in ByteSamples :
           up' = UploadCalled(IdString(generateID(b1, b2)))
    /\ cmd' = [cmd EXCEPT !.pc = "uploading"]
    /\ UNCHANGED <<upFrame, store>>

(* UploadSudoku has returned: on an error the retry loop continues, with mainRetries
   as it was; otherwise break, and the next puzzle is due *)
CmdUploaded ==
    /\ cmd.prog = "cmd"
    /\ cmd.pc = "uploading"
    /\ up.pc = "returned"
    /\ cmd' = IF up.ret # "created"
              THEN [cmd EXCEPT !.pc = "retries"]
              ELSE [cmd EXCEPT !.pc = "loop", !.i = @ + 1]
    /\ UNCHANGED <<upFrame, store, up>>

(* src/unnamed/part_003: successfulPuzzles < numPuzzles and Generate returns a grid
   (on its error the loop continues as it is): sudokuData gets
   "id": generateSudokuID(...), and db.UploadSudoku is called *)
Part3Upload ==
    /\ cmd.prog = "part_003"
    /\ cmd.pc = "loop"
    /\ cmd.successfulPuzzles < cmd.numPuzzles
    /\ \E hash \in HashSamples : up' = UploadCalled(IdString(generateSudokuID(hash)))
    /\ cmd' = [cmd EXCEPT !.pc = "uploading"]
    /\ UNCHANGED <<upFrame, store>>

(* UploadSudoku has returned: on an error continue, otherwise successfulPuzzles++ *)
Part3Uploaded ==
    /\ cmd.prog = "part_003"
    /\ cmd.pc = "uploading"
    /\ up.pc = "returned"
    /\ cmd' = IF up.ret # "created"
              THEN [cmd EXCEPT !.pc = "loop"]
              ELSE [cmd EXCEPT !.pc = "loop", !.successfulPuzzles = @ + 1]
    /\ UNCHANGED <<upFrame, store, up>>

(* successfulPuzzles has reached numPuzzles: main returns *)
Part3Exit ==
    /\ cmd.prog = "part_003"
    /\ cmd.pc = "loop"
    /\ cmd.successfulPuzzles >= cmd.numPuzzles
    /\ cmd' = [cmd EXCEPT !.pc = "exit"]
    /\ UNCHANGED <<upFrame, store, up>>

CmdInit ==
    \E prog \in {"cmd", "part_003"}, numPuzzles \in 1 .. MaxPuzzles :
        CmdStarted(prog, numPuzzles)

CmdNext ==
    \/ UploadValidate
    \/ UploadCheckFails
    \/ UploadExists
    \/ UploadAbsent
    \/ UploadCreate
    \/ UploadCreateFails
    \/ CmdPuzzle
    \/ CmdExit
    \/ CmdRetry
    \/ CmdBreak
    \/ CmdUpload
    \/ CmdUploaded
    \/ Part3Upload
    \/ Part3Uploaded
    \/ Part3Exit

CmdSpec == CmdInit /\ [][CmdNext]_vars

-----------------------------------------------------------------------------
(* Properties *)

(* the number of cells of one row-and-column grid that hold v *)
CountIn(cellSet, cells, size, v) ==
    Cardinality({idx \in cellSet : cells[idx \div size][idx % size] = v})

RowCells(size, r) == {r * size + c : c \in Rng(size)}

ColCells(size, c) == {r * size + c : r \in Rng(size)}

(* no zero cell, and every value 1..size exactly once in every row, column and region *)
IsSolved(cells, subGrids, size) ==
    /\ \A r \in Rng(size), c \in Rng(size) : cells[r][c] \in 1 .. size
    /\ \A v \in 1 .. size :
          /\ \A r \in Rng(size) : CountIn(RowCells(size, r), cells, size, v) = 1
          /\ \A c \in Rng(size) : CountIn(ColCells(size, c), cells, size, v) = 1
          /\ \A i \in 1 .. Len(subGrids) :
                Cardinality({k \in 1 .. Len(subGrids[i]) :
                    cells[subGrids[i][k] \div size][subGrids[i][k] % size] = v}) = 1

Returned == mainpc = "done" /\ ret.kind = "puzzle"

(* C1: every grid for which solve returned true, and the solution of every puzzle
   Generate returns, has no zero cell and holds each value 1..size exactly once in
   every row, every column and every region of its region set *)
C1_SolvedGrid ==
    /\ \A w \in Workers :
          wpc[w] = "solved" => IsSolved(grid[w].Puzzle, grid[w].SubGrids, g.size)
    /\ Returned => /\ IsSolved(ret.grid.Solution, ret.grid.SubGrids, g.size)
                   /\ Len(ret.grid.SubGrids) = g.size

(* solve has returned true on the 4x4 box layout with a grid it filled itself *)
C1_Witness ==
    /\ g.size = 4
    /\ wpc[0] = "solved"
    /\ grid[0].Puzzle[0][0] = 4
    /\ grid[0].Puzzle[3][3] = 2

(* C2: at most one publish completes, stopChan is closed at most once, and the
   puzzle Generate returns is the grid of the one worker that published *)
C2_SinglePublish ==
    /\ Len(hist.published) <= 1
    /\ hist.closes <= 1
    /\ ~panicked
    /\ Returned => /\ hist.published = << <<ret.worker, ret.attempt>> >>
                   /\ ret.grid = grid[ret.worker]
                   /\ attempt[ret.worker] = ret.attempt
    /\ mainpc = "done" /\ ret.kind # "puzzle" => hist.published = <<>>

(* a puzzle was returned while another worker had finished one that was dropped *)
C2_Witness ==
    /\ Returned
    /\ \E w \in Workers :
          /\ w # ret.worker
          /\ hist.exit[w] = "stopped"
          /\ grid[w] # Nil

AllExhausted == \A w \in Workers : hist.exit[w] = "quota"

(* C3: in an execution where no worker ever succeeded and the time budget has elapsed
   (the timer of the caller's select has fired when the select decides), Generate
   returns the timed-out error, never the 'failed after N attempts' error and never
   a puzzle *)
C3_TimedOut ==
    (/\ mainpc = "done"
     /\ hist.timerAtSelect
     /\ \A w \in Workers : hist.solved[w] = Nil) => ret.kind = "timeout"

(* C4, as stated: workers that all used up their attempts before the timer fired make
   Generate return the 'failed' error, and that error is returned only when every
   worker used up its quota and stopChan was never closed *)
C4_FailedAsStated ==
    /\ (mainpc = "done" /\ hist.exhaustedEarly) => ret.kind = "failed"
    /\ ret.kind = "failed" => AllExhausted /\ ~stopClosed /\ hist.closes = 0

(* C4, amended: the 'failed' error is returned when every worker used up its attempts
   and the timer has still not fired when the caller's select decides; it is returned
   only when every worker used up its quota and stopChan was never closed *)
C4_Failed ==
    /\ (mainpc = "done" /\ hist.exhaustedEarly /\ ~hist.timerAtSelect) =>
           ret.kind = "failed" /\ ret.attempt = g.maxRetries
    /\ ret.kind = "failed" => /\ AllExhausted
                              /\ ~stopClosed
                              /\ hist.closes = 0
                              /\ hist.published = <<>>

(* two workers used up their attempts and the caller received the 'failed' error *)
C4_Witness ==
    /\ mainpc = "done"
    /\ ret.kind = "failed"
    /\ g.threads = 2
    /\ hist.exhaustedEarly
    /\ ~hist.timerAtSelect

(* two cells that share an edge *)
Adjacent4(size, a, b) ==
    LET ra == a \div size
        ca == a % size
        rb == b \div size
        cb == b % size
    IN  \/ ra = rb /\ (ca = cb + 1 \/ cb = ca + 1)
        \/ ca = cb /\ (ra = rb + 1 \/ rb = ra + 1)

RECURSIVE Reach(_, _, _)
Reach(size, cells, seen) ==
    LET more == {c \in cells \ seen : \E d \in seen : Adjacent4(size, c, d)}
    IN  IF more = {} THEN seen ELSE Reach(size, cells, seen \cup more)

Connected4(size, cells) ==
    cells # {} /\ Reach(size, cells, {CHOOSE c \in cells : TRUE}) = cells

JigsawOK(subGrids, size) ==
    /\ Len(subGrids) = size
    /\ \A i \in 1 .. size :
          /\ Len(subGrids[i]) = size
          /\ Cardinality(SeqToSet(subGrids[i])) = size
          /\ SeqToSet(subGrids[i]) \subseteq Rng(size * size)
          /\ Connected4(size, SeqToSet(subGrids[i]))
    /\ \A i \in 1 .. size, j \in 1 .. size :
          i # j => SeqToSet(subGrids[i]) \cap SeqToSet(subGrids[j]) = {}
    /\ UNION {SeqToSet(subGrids[i]) : i \in 1 .. size} = Rng(size * size)

(* C5: every region set jigsaw synthesis returns without error (one attempt of
   generateJigsawRegionsSerial, the same statements as tryGenerateJigsawRegions) has
   exactly size regions of exactly size distinct cells in 0..size*size-1, pairwise
   disjoint, covering all cells, each region connected under 4-neighbour adjacency *)
C5_JigsawRegions ==
    /\ \A w \in Workers :
          (g.sudokuType = Jigsaw /\ grid[w] # Nil /\ grid[w].SubGrids # Nil) =>
              JigsawOK(grid[w].SubGrids, g.size)
    /\ (Returned /\ g.sudokuType = Jigsaw) => JigsawOK(ret.grid.SubGrids, g.size)

(* synthesis has returned a 3x3 layout whose first region is an L grown from the centre *)
C5_Witness ==
    /\ g.size = 3
    /\ g.sudokuType = Jigsaw
    /\ deadlinePassed
    /\ wpc[0] = "solve"
    /\ grid[0].SubGrids[1] = <<4, 1, 0>>

Carving == {"remove", "publish", "close"}

ZeroCount(cells, size) ==
    Cardinality({idx \in Rng(size * size) : cells[idx \div size][idx % size] = 0})

CarvedOK(gr, size) ==
    \A r \in Rng(size), c \in Rng(size) :
        gr.Puzzle[r][c] = 0 \/ gr.Puzzle[r][c] = gr.Solution[r][c]

(* C6: in every puzzle Generate returns, and in every grid being carved, each cell of
   the carved grid is 0 or equal to the cell at the same position of the solution *)
C6_CarvedProjection ==
    /\ \A w \in Workers : wpc[w] \in Carving => CarvedOK(grid[w], g.size)
    /\ Returned => CarvedOK(ret.grid, g.size)

(* a returned 2x2 puzzle with a zeroed cell and a cell that kept its value *)
C6_Witness ==
    /\ Returned
    /\ g.size = 2
    /\ \E r \in Rng(2), c \in Rng(2) : ret.grid.Puzzle[r][c] = 0
    /\ \E r \in Rng(2), c \in Rng(2) : ret.grid.Puzzle[r][c] = ret.grid.Solution[r][c]

(* C7: for every difficulty d and size, removeNumbers leaves exactly
   floor((10*d + 20) * size*size / 100) zero cells in a solved grid, the positions it
   zeroes being pairwise distinct *)
C7_ZeroCount ==
    \A w \in Workers :
        /\ wpc[w] = "remove" =>
               /\ Cardinality(carve[w].drawn) = carve[w].i
               /\ ZeroCount(grid[w].Puzzle, g.size) = carve[w].i
        /\ wpc[w] = "publish" =>
               LET z == ZeroCount(grid[w].Puzzle, g.size)
               IN  /\ 100 * z <= (10 * g.difficulty + 20) * g.size * g.size
                   /\ (10 * g.difficulty + 20) * g.size * g.size < 100 * (z + 1)

(* removeNumbers has returned on a 9x9 grid at difficulty 5 with 56 zero cells *)
C7_Witness ==
    /\ g.size = 9
    /\ g.difficulty = 5
    /\ wpc[0] = "publish"
    /\ ZeroCount(grid[0].Puzzle, 9) = 56

Scenario9Box1 == g.size = 9 /\ g.sudokuType = Normal /\ g.difficulty = 1

(* C8, as stated: for size 9, box layout and difficulty 1 the carved grid of the
   returned puzzle has exactly 27 zero cells *)
C8_ZeroCells27 ==
    /\ \A w \in Workers :
          (Scenario9Box1 /\ wpc[w] = "publish") => ZeroCount(grid[w].Puzzle, 9) = 27
    /\ (Scenario9Box1 /\ Returned) => ZeroCount(ret.grid.Puzzle, 9) = 27

(* C8, amended: for size 9, box layout and difficulty 1 the carved grid of the
   returned puzzle has exactly 24 zero cells, the floor of 30 * 81 / 100 *)
C8_ZeroCells24 ==
    /\ \A w \in Workers :
          (Scenario9Box1 /\ wpc[w] = "publish") => ZeroCount(grid[w].Puzzle, 9) = 24
    /\ (Scenario9Box1 /\ Returned) => ZeroCount(ret.grid.Puzzle, 9) = 24

(* a 9x9 box puzzle of difficulty 1 has been returned *)
C8_Witness ==
    /\ Scenario9Box1
    /\ Returned
    /\ ZeroCount(ret.grid.Puzzle, 9) = 24
    /\ ZeroCount(ret.grid.Solution, 9) = 0

NoZero(cells, size) == \A r \in Rng(size), c \in Rng(size) : cells[r][c] # 0

(* C9: carving never modifies the solution: during and after removeNumbers the
   Solution grid equals, cell for cell, the grid solve produced, has no zero cell, and
   shares no row with the carved grid *)
C9_SolutionKept ==
    /\ \A w \in Workers :
          wpc[w] \in Carving =>
              /\ grid[w].Solution = hist.solved[w]
              /\ NoZero(grid[w].Solution, g.size)
              /\ \A r \in Rng(g.size) : ~grid[w].aliased[r]
    /\ Returned => /\ ret.grid.Solution = hist.solved[ret.worker]
                   /\ NoZero(ret.grid.Solution, g.size)

(* removeNumbers has zeroed four cells of a 4x4 grid whose solution is as solve left it *)
C9_Witness ==
    /\ g.size = 4
    /\ wpc[0] = "publish"
    /\ ZeroCount(grid[0].Puzzle, 4) = 4
    /\ grid[0].Solution = hist.solved[0]
    /\ grid[0].Solution # grid[0].Puzzle

(* the box dimensions the claim names for a supported size *)
ClaimedWidth(size) == IF size = 16 THEN 4 ELSE 3

ClaimedHeight(size) == IF size = 9 THEN 3 ELSE 4

(* the cells of the k-th box (k from 0) in row-major box order *)
Rect(size, k) ==
    LET perRow == size \div ClaimedWidth(size)
        top == (k \div perRow) * ClaimedHeight(size)
        left == (k % perRow) * ClaimedWidth(size)
    IN  {r * size + c : r \in top .. top + ClaimedHeight(size) - 1,
                        c \in left .. left + ClaimedWidth(size) - 1}

BoxOK(subGrids, size) ==
    /\ Len(subGrids) = size
    /\ \A k \in 1 .. size :
          /\ Len(subGrids[k]) = size
          /\ SeqToSet(subGrids[k]) = Rect(size, k - 1)
          /\ \A a \in 1 .. size, b \in 1 .. size : a < b => subGrids[k][a] < subGrids[k][b]
    /\ \A k \in 1 .. size, l \in 1 .. size :
          k # l => SeqToSet(subGrids[k]) \cap SeqToSet(subGrids[l]) = {}
    /\ UNION {SeqToSet(subGrids[k]) : k \in 1 .. size} = Rng(size * size)

(* C10: for the sizes 9, 12 and 16 the regions a worker holds when
   generateNormalSubgrids has returned are, always the same, exactly size regions in row-major box order, each an axis-aligned rectangle of
   exactly size cells (3x3, 3 wide by 4 high, 4x4), the regions partitioning the grid *)
C10_BoxRegions ==
    \A w \in Workers :
        (/\ g.sudokuType = Normal
         /\ g.size \in {9, 12, 16}
         /\ wpc[w] \in {"solve", "solved"}) => BoxOK(grid[w].SubGrids, g.size)

(* generateNormalSubgrids has returned for size 12: the second region is the box of
   columns 3..5 and rows 0..3 *)
C10_Witness ==
    /\ g.size = 12
    /\ wpc[0] = "solve"
    /\ grid[0].Puzzle = ZeroCells(12)
    /\ grid[0].SubGrids[2] = <<3, 4, 5, 15, 16, 17, 27, 28, 29, 39, 40, 41>>

(* the places of a worker inside generateJigsawRegionsSerial or solve *)
Searching == {"jigsaw", "solve", "nums", "retfalse"}

(* C11: every worker polls the stop signal between search steps: once stopChan is
   closed, a worker inside region synthesis or solve takes no further search step
   (it places no number and grows no region) but abandons the attempt *)
C11_PollsStop ==
    [][\A w \in Workers :
          (stopClosed /\ wpc[w] \in Searching) =>
              \/ grid'[w] = grid[w] /\ jig'[w] = jig[w]
              \/ wpc'[w] \in {"loop", "done"}]_vars

(* C12: Generate returns either a puzzle with a nil error or nil with an error (all
   attempts failed, or timed out), never nil with a nil error; the failure of a single
   attempt is not returned while a worker still has attempts left *)
C12_Outcomes ==
    /\ mainpc = "done" =>
           \/ ret.kind = "puzzle" /\ ret.grid # Nil
           \/ ret.kind \in {"failed", "timeout"} /\ ret.grid = Nil
    /\ ret.kind \in {"failed", "timeout"} => mainpc = "done"
    /\ ret.kind = "failed" =>
           \A w \in Workers : wpc[w] = "done" /\ attempt[w] >= AttemptsPerThread

(* Generate returned the timed-out error after one worker's attempt had failed and
   another worker's attempt had produced a puzzle that was dropped *)
C12_Witness ==
    /\ mainpc = "done"
    /\ ret.kind = "timeout"
    /\ \E w \in Workers : attempt[w] >= 1
    /\ \E w \in Workers : hist.solved[w] # Nil /\ hist.exit[w] = "stopped"

RegionLookupOK(subGrids, size) ==
    /\ \A idx \in Rng(size * size) : findRegionIndex(subGrids, idx) \in Rng(size)
    /\ \A i \in Rng(size) :
          Cardinality({idx \in Rng(size * size) : findRegionIndex(subGrids, idx) = i}) = size

(* C13: on every region set a worker holds when the box or the jigsaw synthesizer has
   returned it, findRegionIndex gives every cell index in 0..size*size-1 a region index
   in 0..size-1, never -1, and gives every region index to exactly size cells *)
C13_RegionLookup ==
    \A w \in Workers :
        wpc[w] \in {"solve", "solved"} => RegionLookupOK(grid[w].SubGrids, g.size)

(* the lookup on a grown 3x3 jigsaw layout: the centre cell lies in the first region,
   the corner cell 8 in the last *)
C13_Witness ==
    /\ g.size = 3
    /\ g.sudokuType = Jigsaw
    /\ wpc[0] = "solve"
    /\ grid[0].SubGrids[1][1] = 4
    /\ findRegionIndex(grid[0].SubGrids, 4) = 0
    /\ findRegionIndex(grid[0].SubGrids, 8) = 2

(* the call of solve at the root has returned *)
RootReturned(w) == wpc[w] = "solved" \/ (wpc[w] = "retfalse" /\ stack[w] = <<>>)

(* the bool the call at the root returned *)
SolveResult(w) == wpc[w] = "solved"

(* what solve returns when the loop at the root has run through every number: return false *)
NoSolutionResult == FALSE

(* C14: when the deadline elapsed during a search, what solve returns to its caller
   differs from what it returns when every candidate at the root was exhausted *)
C14_TimeoutDistinct ==
    \A w \in Workers :
        (RootReturned(w) /\ hist.timedOut[w]) => SolveResult(w) # NoSolutionResult

(* the step leaves every worker other than w where it was, with what it held *)
OthersUntouched(w) ==
    \A v \in Workers \ {w} :
        /\ wpc'[v] = wpc[v]
        /\ attempt'[v] = attempt[v]
        /\ grid'[v] = grid[v]
        /\ stack'[v] = stack[v]
        /\ jig'[v] = jig[v]
        /\ carve'[v] = carve[v]

(* C15: no grid and no region set is touched by two workers: a step that changes the
   grid or the regions a worker holds is a step of that worker alone, and a worker that
   has published its grid never writes to it again *)
C15_Ownership ==
    [][\A w \in Workers :
          grid'[w] # grid[w] =>
              /\ OthersUntouched(w)
              /\ wpc[w] \notin {"publish", "close", "done"}
              /\ ~(ret.kind = "puzzle" /\ ret.worker = w)]_vars

(* a puzzle has been returned while another worker is carving a grid of its own *)
C15_Witness ==
    /\ Returned
    /\ \E w \in Workers :
          /\ w # ret.worker
          /\ wpc[w] = "remove"
          /\ grid[w] # Nil

(* the places of a worker inside solve, the root call's return included *)
InSolve == {"solve", "nums", "retfalse"}

(* C16: solve, findEmptyPositionWithMRV and isValid never modify the region set: every
   step taken inside solve leaves SubGrids as it was, so the regions after a call that
   succeeded, failed or timed out are those before it (the grid of a failed attempt is
   dropped by the worker once solve has returned) *)
C16_RegionsKept ==
    [][\A w \in Workers :
          wpc[w] \in InSolve =>
              IF grid'[w] = Nil THEN wpc'[w] = "loop"
              ELSE grid'[w].SubGrids = grid[w].SubGrids]_vars

(* solve has returned true on a 3x3 jigsaw grid it filled, the regions being those it
   was called with *)
C16_Witness ==
    /\ g.size = 3
    /\ wpc[0] = "solved"
    /\ grid[0].SubGrids = << <<0, 1, 3>>, <<2, 5, 4>>, <<6, 7, 8>> >>
    /\ grid[0].Puzzle[0][0] = 2

(* C17: SetDifficulty(level) sets the difficulty and returns nil iff 1 <= level <= 5;
   for any other level it returns an error and leaves the difficulty, initially 1, as
   it was; so the difficulty of the generator is always in 1..5 *)
C17_SetDifficulty ==
    /\ g.difficulty \in 1 .. 5
    /\ (mainpc = "config" /\ hist.calls = 0) => g.difficulty = 1
    /\ (mainpc = "config" /\ hist.calls > 0) =>
           /\ hist.err <=> ~(1 <= hist.level /\ hist.level <= 5)
           /\ ~hist.err => g.difficulty = hist.level
           /\ hist.err => g.difficulty = hist.before

(* SetDifficulty(3) returned nil, then SetDifficulty(6) returned an error *)
C17_Witness ==
    /\ mainpc = "config"
    /\ hist.calls = 2
    /\ hist.err
    /\ hist.level = 6
    /\ hist.before = 3
    /\ g.difficulty = 3

(* C18: the puzzle the serial Generate returns records the difficulty that drove its
   carving: its Difficulty field equals the difficulty of the generator *)
C18_DifficultyRecorded ==
    (mainpc = "done" /\ ret.kind = "puzzle") => ret.grid.Difficulty = g.difficulty

RECURSIVE SumTo(_, _)
SumTo(f, n) == IF n = 0 THEN 0 ELSE f[n - 1] + SumTo(f, n - 1)

(* the attempts the workers have made in all *)
AttemptsMade == SumTo(attempt, g.threads)

(* C19: when Generate fails with the all-attempts-exhausted error, the count the error
   carries is the number of attempts the workers made, the quotas of the workers
   (maxRetries / threads, at least 1) adding up to maxRetries *)
C19_AttemptCount ==
    (mainpc = "done" /\ ret.kind = "failed") =>
        /\ ret.attempt = AttemptsMade
        /\ g.threads * AttemptsPerThread = g.maxRetries

(* C20: a failure of jigsaw region synthesis is surfaced as an ordinary error and never
   aborts the process: when generateJigsawRegions returns an error to
   NewSudokuGenerator, the constructor does not panic *)
C20_NoAbort == ret.kind \in {"timeout", "workerFailed"} => ~panicked

(* C21: jigsaw synthesis for size 1 succeeds on its first attempt (the attempt counter
   of generateJigsawRegionsSerial never leaves 0) and the region set it hands to the
   grid is exactly one region holding exactly the cell 0 *)
C21_SizeOne ==
    (g.size = 1 /\ g.sudokuType = Jigsaw) =>
        \A w \in Workers :
            /\ jig[w].attempts = 0
            /\ (grid[w] # Nil /\ wpc[w] # "jigsaw") => grid[w].SubGrids = << <<0>> >>

(* a worker of a size 1 jigsaw generator has its regions and is about to solve *)
C21_Witness ==
    /\ g.size = 1 /\ g.sudokuType = Jigsaw
    /\ \E w \in Workers :
           wpc[w] = "solve" /\ grid[w] # Nil /\ grid[w].SubGrids = << <<0>> >>

(* the empty cells of a grid, as row-major cell indexes *)
EmptyCells(gr, size) == {idx \in Rng(size * size) : gr.Puzzle[idx \div size][idx % size] = 0}

(* the cells of the region that contains idx *)
RegionCells(gr, idx) ==
    SeqToSet(gr.SubGrids[CHOOSE k \in 1 .. Len(gr.SubGrids) : idx \in SeqToSet(gr.SubGrids[k])])

(* the values that occur neither in the row, nor in the column, nor in the region of idx *)
LegalValues(gr, idx, size) ==
    LET seen == {gr.Puzzle[idx \div size][x] : x \in Rng(size)}
                \cup {gr.Puzzle[x][idx % size] : x \in Rng(size)}
                \cup {gr.Puzzle[c \div size][c % size] : c \in RegionCells(gr, idx)}
    IN  (1 .. size) \ seen

(* the position the claim describes: none without an empty cell, and otherwise the
   first cell in row-major order among the empty cells with the fewest legal values *)
MRVChoice(gr, size) ==
    LET empty == EmptyCells(gr, size)
        count == [idx \in empty |-> Cardinality(LegalValues(gr, idx, size))]
        least == MinOf({count[idx] : idx \in empty})
        first == MinOf({idx \in empty : count[idx] = least})
    IN  IF empty = {} THEN Nil ELSE <<first \div size, first % size>>

(* C22: findEmptyPositionWithMRV returns no position iff the grid has no empty cell, and
   otherwise the empty cell with the fewest legal values (0 included), the first in
   row-major order among those; this holds for every grid a call to solve is about to
   scan (the deadline has not passed), and the cell solve goes on with is that one *)
C22_MRVChoice ==
    \A w \in Workers :
        /\ (wpc[w] = "solve" /\ grid[w] # Nil /\ ~deadlinePassed) =>
               findEmptyPositionWithMRV(grid[w], g.size) = MRVChoice(grid[w], g.size)
        /\ (wpc[w] = "nums" /\ Top(stack[w]).nums = 1 .. g.size) =>
               <<Top(stack[w]).row, Top(stack[w]).col>> = MRVChoice(grid[w], g.size)
        /\ wpc[w] = "solved" => EmptyCells(grid[w], g.size) = {}

(* solve has just chosen a cell that is not the first empty cell: an earlier empty cell
   has more legal values, and a later empty cell has as few as the chosen one *)
C22_Witness ==
    \E w \in Workers :
        /\ wpc[w] = "nums"
        /\ Top(stack[w]).nums = 1 .. g.size
        /\ LET chosen == Top(stack[w]).row * g.size + Top(stack[w]).col
               count(idx) == Cardinality(LegalValues(grid[w], idx, g.size))
           IN  /\ \E idx \in EmptyCells(grid[w], g.size) :
                      idx < chosen /\ count(idx) > count(chosen)
               /\ \E idx \in EmptyCells(grid[w], g.size) :
                      idx > chosen /\ count(idx) = count(chosen)

(* C23: whenever a call to solve returns false, by exhaustion or by the deadline, the
   grid is cell for cell the grid at that call's entry; and a cell that was non-zero
   at the entry of a call holds its entry value for as long as the call runs *)
C23_FailRestores ==
    \A w \in Workers :
        /\ wpc[w] = "retfalse" =>
               /\ Len(hist.entry[w]) = Len(stack[w]) + 1
               /\ grid[w].Puzzle = Top(hist.entry[w])
        /\ wpc[w] \in InSolve =>
               \A k \in 1 .. Len(hist.entry[w]) : \A i \in Rng(g.size), j \in Rng(g.size) :
                   hist.entry[w][k][i][j] # 0 => grid[w].Puzzle[i][j] = hist.entry[w][k][i][j]

(* a recursive call that had written cells returned false by exhaustion (the deadline
   has not passed), on an entry grid that was partially filled *)
C23_Witness ==
    \E w \in Workers :
        /\ wpc[w] = "retfalse"
        /\ ~deadlinePassed
        /\ Len(stack[w]) >= 1
        /\ \E i \in Rng(g.size), j \in Rng(g.size) : Top(hist.entry[w])[i][j] # 0
        /\ grid[w].Puzzle = Top(hist.entry[w])

(* the grid can be filled completely, each value placed being legal in its row, column
   and region *)
RECURSIVE Completable(_, _)
Completable(gr, size) ==
    LET empty == EmptyCells(gr, size)
        idx == MinOf(empty)
    IN  IF empty = {} THEN TRUE
        ELSE \E v \in LegalValues(gr, idx, size) :
                 Completable([gr EXCEPT !.Puzzle[idx \div size][idx % size] = v], size)

(* C24: solver completeness: a call to solve that returns false while the deadline has
   not passed was entered on a grid without a valid completion, so on a grid that has
   one solve does not return false, whatever the shuffle orders *)
C24_Complete ==
    \A w \in Workers :
        (wpc[w] = "retfalse" /\ ~deadlinePassed) =>
            ~Completable([grid[w] EXCEPT !.Puzzle = Top(hist.entry[w])], g.size)

(* a recursive call entered on a partially filled 3x3 jigsaw grid without completion
   has returned false before the deadline, its caller having more numbers to try *)
C24_Witness ==
    \E w \in Workers :
        /\ wpc[w] = "retfalse" /\ ~deadlinePassed /\ g.size = 3
        /\ stack[w] # <<>> /\ Top(stack[w]).nums # {}
        /\ ~Completable([grid[w] EXCEPT !.Puzzle = Top(hist.entry[w])], g.size)
        /\ Completable([grid[w] EXCEPT !.Puzzle = hist.entry[w][1]], g.size)

(* worker w is about to run a call to solve on a grid without an empty cell *)
FullAtEntry(w) == wpc[w] = "solve" /\ grid[w] # Nil /\ EmptyCells(grid[w], g.size) = {}

(* C25, as stated: solve reports success whenever it is invoked on a grid in which no
   empty cell remains, the base case being decided before any other outcome *)
C25_BaseCaseAsStated ==
    [][\A w \in Workers :
          (FullAtEntry(w) /\ wpc'[w] # wpc[w]) => wpc'[w] = "solved"]_vars

(* C25, amended: the deadline is checked before the base case; a call on a grid
   without empty cell reports success when the deadline has not passed at its entry,
   and reports failure, leaving the grid as it is, when the deadline has passed *)
C25_BaseCase ==
    [][\A w \in Workers :
          (FullAtEntry(w) /\ wpc'[w] # wpc[w]) =>
              /\ ~deadlinePassed => wpc'[w] = "solved"
              /\ deadlinePassed => wpc'[w] = "retfalse" /\ grid'[w] = grid[w]]_vars

(* a call on a full grid has just returned false because the deadline had passed *)
C25_Witness ==
    \E w \in Workers :
        /\ wpc[w] = "retfalse" /\ hist.timedOut[w] /\ stack[w] # <<>>
        /\ EmptyCells(grid[w], g.size) = {}
        /\ Top(hist.entry[w]) = grid[w].Puzzle

(* two different cells share a row, a column or a region *)
SameUnit(gr, a, b, size) ==
    \/ a \div size = b \div size
    \/ a % size = b % size
    \/ b \in RegionCells(gr, a)

(* the non-zero cells are pairwise distinct within each row, column and region *)
PartialDistinct(gr, size) ==
    \A a \in Rng(size * size), b \in Rng(size * size) :
        (a < b /\ SameUnit(gr, a, b, size) /\ gr.Puzzle[a \div size][a % size] # 0) =>
            gr.Puzzle[a \div size][a % size] # gr.Puzzle[b \div size][b % size]

(* C26: for an empty cell isValid returns true iff the value occurs neither in the row,
   nor in the column, nor in the region of the cell; and in every state of a search
   the non-zero cells are pairwise distinct within each row, column and region *)
C26_Legality ==
    \A w \in Workers :
        (wpc[w] \in InSolve /\ grid[w] # Nil) =>
            /\ \A idx \in EmptyCells(grid[w], g.size), v \in 1 .. g.size :
                   isValid(grid[w], v, idx \div g.size, idx % g.size, g.size)
                       <=> v \in LegalValues(grid[w], idx, g.size)
            /\ PartialDistinct(grid[w], g.size)

(* in the middle of a search on the 3x3 jigsaw layout isValid rejects a value for an
   empty cell that neither its row nor its column holds: only the region holds it;
   and it rejects another one that only the column holds *)
C26_Witness ==
    \E w \in Workers :
        /\ wpc[w] = "nums" /\ g.size = 3 /\ g.sudokuType = Jigsaw
        /\ \E idx \in EmptyCells(grid[w], 3), v \in 1 .. 3 :
               /\ ~isValid(grid[w], v, idx \div 3, idx % 3, 3)
               /\ \A x \in Rng(3) : grid[w].Puzzle[idx \div 3][x] # v
               /\ \A x \in Rng(3) : grid[w].Puzzle[x][idx % 3] # v
        /\ \E idx \in EmptyCells(grid[w], 3), v \in 1 .. 3 :
               /\ ~isValid(grid[w], v, idx \div 3, idx % 3, 3)
               /\ \A x \in Rng(3) : grid[w].Puzzle[idx \div 3][x] # v
               /\ \A c \in RegionCells(grid[w], idx) : grid[w].Puzzle[c \div 3][c % 3] # v

(* C27: the deadline of the solver is per solve: a call to solve is aborted for timeout
   only when the attempt it belongs to has itself run for longer than the budget *)
C27_PerSolveDeadline ==
    [][\A w \in Workers :
          (wpc[w] = "solve" /\ wpc'[w] = "retfalse") => hist.ownPassed[w]]_vars

(* the caller has returned, every worker has returned and the closing goroutine has
   ended *)
AllReturned ==
    /\ mainpc = "done"
    /\ \A w \in Workers : wpc[w] = "done"
    /\ closerpc = "done"

(* C28: under fair scheduling the caller of Generate always returns, and every worker
   and the closing goroutine end as well: no goroutine stays blocked on a send, on
   wg.Wait or on a receive, whether the run ends in success, failure or timeout *)
C28_AllReturn == <>[]AllReturned
(* a run with two workers has ended in success: the caller has the puzzle, and the
   worker that had solved its grid as well was released from its publishing select by
   the closed stopChan; all goroutines have ended *)
C28_Witness ==
    /\ AllReturned
    /\ ret.kind = "puzzle"
    /\ \E w \in Workers : hist.exit[w] = "stopped" /\ hist.solved[w] # Nil
GrowthBlocked(j, size) ==
    IF j.region # Nil
    THEN ~\E c \in Rng(size * size) \ j.used :
              \E d \in SeqToSet(j.region) : Adjacent4(size, c, d)
    ELSE j.regionIdx < size /\ j.used = Rng(size * size)

(* an attempt that has assigned nothing: no used cell, no region stored or growing *)
EmptyAttempt(j) ==
    /\ j.used = {}
    /\ j.region = Nil
    /\ j.regionIdx = 0
    /\ \A k \in 1 .. Len(j.regions) : j.regions[k] = Nil

(* the used cells are exactly the cells of the regions of this attempt *)
UsedIsOwn(j) ==
    j.used = UNION ({SeqToSet(j.regions[k]) : k \in 1 .. Len(j.regions)}
                    \cup {SeqToSet(j.region)})

(* C30: in jigsaw synthesis an attempt that cannot go on is discarded as a whole at the
   next step, every new attempt starts without a used cell and without a region, the
   used cells are always those of the current attempt's regions, and the region set
   handed to the grid is the one of the attempt that completed *)
C30_FreshAttempts ==
    [][\A w \in Workers : (wpc[w] = "jigsaw" /\ jig'[w] # jig[w]) =>
          /\ GrowthBlocked(jig[w], g.size) => jig'[w].attempts = jig[w].attempts + 1
          /\ (wpc'[w] = "jigsaw" /\ jig'[w].attempts # jig[w].attempts) =>
                 jig'[w].attempts = jig[w].attempts + 1 /\ EmptyAttempt(jig'[w])
          /\ wpc'[w] = "jigsaw" => UsedIsOwn(jig'[w])
          /\ wpc'[w] = "solve" =>
                 /\ grid'[w].SubGrids = jig[w].regions
                 /\ UsedIsOwn(jig[w])
                 /\ ~GrowthBlocked(jig[w], g.size)]_vars

(* after a discarded first attempt, the second attempt on the 3x3 grid has stored a
   region of its own, and cell 0 is unused *)
C30_Witness ==
    \E w \in Workers :
        /\ wpc[w] = "jigsaw" /\ g.size = 3
        /\ jig[w].attempts = 1
        /\ jig[w].regionIdx >= 1
        /\ 0 \notin jig[w].used
        /\ UsedIsOwn(jig[w])
(* C31: generateJigsawRegionsSerial returns either a complete region set (no error) or
   no region set (the error); the error comes only when exactly maxAttempts attempts
   have failed, with nothing grown in a further attempt, and a region set that is
   returned is never a partially grown one *)
C31_SynthesisResult ==
    [][\A w \in Workers : (wpc[w] = "jigsaw" /\ wpc'[w] # "jigsaw") =>
          \/ /\ wpc'[w] = "solve"
             /\ jig[w].attempts < MaxAttempts
             /\ grid'[w] # Nil
             /\ JigsawOK(grid'[w].SubGrids, g.size)
          \/ /\ wpc'[w] = "loop"
             /\ jig[w].attempts = MaxAttempts
             /\ EmptyAttempt(jig[w])
             /\ grid'[w] = Nil]_vars

(* on the 3x3 grid every attempt of the budget got stuck: the error was returned and
   the worker's attempt is over, without a grid *)
C31_Witness ==
    /\ g.size = 3
    /\ \E w \in Workers :
           wpc[w] = "loop" /\ attempt[w] = 1 /\ grid[w] = Nil /\ jig[w] = NoJig

(* C32: in generateJigsawRegionsParallel, under every interleaving, no worker sends on
   a closed channel and no channel is closed twice, so that the process never panics: a
   worker that has a valid region set after another worker's was accepted exits without
   publishing it *)
C32_NoSendOnClosed == ~panicked

(* C33: parallel jigsaw synthesis reports failure only after every worker has run
   through its quota of attempts: when the caller has received the failure, no worker
   has attempts left *)
C33_FailureAfterAll ==
    ret.kind = "failed" => \A w \in Workers : attempt[w] >= attemptsPerThread

(* C34: generateJigsawRegionsConcurrent returns a nil error only together with a valid
   region set of size regions, never nil regions with a nil error *)
C34_NilErrorHasRegions ==
    ret.kind = "nil" => ret.grid # Nil /\ JigsawOK(ret.grid, g.size)

(* C35: ConcurrentPuzzleGenerator called with count >= 1 returns a slice of exactly
   count puzzles none of which is nil, whatever count and the number of processors *)
C35_CountPuzzles ==
    ret.kind = "puzzles" =>
        /\ Len(ret.grid) = g.count
        /\ \A k \in 1 .. Len(ret.grid) : ret.grid[k] # Nil

(* size regions of size distinct cells each, which together cover every cell once *)
IsPartition(subGrids, size) ==
    /\ Len(subGrids) = size
    /\ \A i \in 1 .. size :
          /\ Len(subGrids[i]) = size
          /\ Cardinality(SeqToSet(subGrids[i])) = size
    /\ UNION {SeqToSet(subGrids[i]) : i \in 1 .. Len(subGrids)} = Rng(size * size)

(* C36: for the supported sizes 9, 12 and 16 generateNormalSubgrids of the serial
   generator returns size regions of exactly size cells each that partition the grid,
   so that the region lookup of isValid finds a region for every cell and SubGrids is
   never indexed with -1 *)
C36_SerialBoxesPartition ==
    /\ wpc[0] \in {"scan", "chosen"} => IsPartition(grid[0].SubGrids, g.size)
    /\ ~panicked

(* C37: every id the command-line program passes to db.UploadSudoku passes the id
   validation of UploadSudoku, being a string of at most 6 characters, so that no
   generated puzzle is rejected for the length of its id *)
C37_IdsPassValidation ==
    (cmd.prog = "cmd" /\ up.pc # "idle") =>
        /\ up.id.ok
        /\ Len(up.id.s) <= MaxIDLen
        /\ up.ret # "invalidID"

(* C38: db.UploadSudoku creates a record only when the id is a string of at most 6
   characters and the existence check reported no record of that id, and the record
   it creates is added to the store, which keeps every record it had; a call that
   returns for an invalid id, a failed existence check or an existing id returns an
   error and leaves the store as it was *)
C38_UploadGuarded ==
    [][/\ store' # store =>
             /\ up.id.ok
             /\ Len(up.id.s) <= MaxIDLen
             /\ up.exists = "no"
             /\ ~\E r \in store : r.id = up.id.s
             /\ store' = store \cup {[id |-> up.id.s, payload |-> up.payload]}
             /\ up'.ret = "created"
       /\ (up.pc # "returned" /\ up'.pc = "returned"
              /\ (~up.id.ok \/ Len(up.id.s) > MaxIDLen \/ up'.exists \in {"failed", "yes"})) =>
             /\ up'.ret \in {"invalidID", "checkFailed", "exists"}
             /\ store' = store]_vars

(* a call has returned the second record of the store, every id in it of at most 6
   characters *)
C38_Witness ==
    /\ Cardinality(store) = 2
    /\ up.pc = "returned"
    /\ up.ret = "created"
    /\ \A r \in store : Len(r.id) <= MaxIDLen
====
